---- MODULE Spec2Model ----
(***************************************************************************)
(* The per-run pipeline of the YouTube scraper: the browser session        *)
(* manager (createBrowserService), video URL discovery and the worker loop *)
(* scrapeVideos of the scraping orchestrator, in its two service variants: *)
(*   "screenshot"  src/core/services/scrapingOrchestrator.ts               *)
(*   "output"      src/core/services/imageDownloadService.ts (orchestrator *)
(*                 that persists through videoOutputService)               *)
(* Every awaited call on the browser engine, the file system or the prompt *)
(* is a step whose outcome (resolve / reject) is chosen by the environment.*)
(*                                                                         *)
(* Specifications:                                                         *)
(*   Spec           one run of scrapeChannel / scrapeSingleVideo           *)
(*   SpecService    free calls on the browser service                      *)
(*   SpecDiscovery  extractVideoUrls over the anchors of a channel page    *)
(*                  ("service": videoDiscoveryService.ts, "lib": the lib   *)
(*                  orchestrator) and the metadata file names of the run   *)
(*   SpecHelpers    one call of a page-interaction helper, page call by    *)
(*                  page call ("service": pageInteractionService, "lib":   *)
(*                  lib/browser.ts)                                        *)
(*   SpecMetadata   extractVideoMetadata on one video page, per variant    *)
(*   SpecDescription  trimDescription on one description text              *)
(*   SpecConsent    handleConsentDialog / findAndClickButton, callback by  *)
(*                  callback                                               *)
(*   SpecBackoff    ExponentialBackoff.execute                             *)
(*   SpecScraper    scrapeYouTubeChannel (the functional scraper)          *)
(*   SpecBatch      the non-interactive run of scrapeChannel, with         *)
(*                  fairness: every awaited operation settles              *)
(***************************************************************************)
EXTENDS Integers, Sequences, FiniteSets, TLC

\* ---------------------------------------------------------------- bounds
MaxVideos == 2
MaxLaunch == 3
MaxAnchors == 3
MaxOffset == 2
MaxLimit == 3
MaxMissing == 2
MaxPieces == 4
MaxVisible == 2
MaxRetries == 3

\* values of --retries offered to a run (3 is the CLI default)
RetryChoices == {0, 3}

NoHandle == 0

\* the page options offered to a run: the defaults, and both optional
\* setup steps switched on
PageOptions(c) == <<c.useDarkMode, c.hideSuggestedVideos>>
PageOptionChoices == {<<FALSE, FALSE>>, <<TRUE, TRUE>>}

VARIABLES
  orchestrator,  \* which orchestrator source drives the run
  mode,          \* "channel" (scrapeChannel) or "single" (scrapeSingleVideo)
  config,        \* [interactive, maxRetries]
  state,         \* BrowserState of the browser service: [browser, context]
  launched,      \* number of browser processes launched so far
  openBrowsers,  \* browser processes that are running
  openContexts,  \* contexts that are open (a context has its browser's id)
  pages,         \* pages created in the context, in creation order
  pc,            \* position of the run function / of the service client
  videoUrls,     \* the list offered to scrapeVideos
  i,             \* loop index of scrapeVideos (1-based)
  page,          \* the page handle held by the current iteration
  success,       \* success: VideoMetadata[] (by URL)
  failed,        \* failed: FailedVideo[]
  openPages,     \* openPages: Page[] tracked in interactive mode
  pending,       \* the error in flight ("" when none)
  outcome,       \* "running", "resolved" or "rejected"
  summary,       \* the summary of the ScrapingResult, once assembled
  attempts,      \* per URL: how often its pipeline was entered
  opened,        \* per URL: pages opened for it
  navs,          \* per URL: navigations issued for it
  delays,        \* number of backoff.delay() calls
  cleanups,      \* number of browserService.cleanup() calls
  quit,          \* the operator answered 'q'
  ready,         \* an initialize has completed and no cleanup has run since
  got,           \* what the last getContext() call of the client produced
  cleanupResult, \* how the last cleanup() call settled
  stages,        \* pipeline stages run for the current video, in order
  started,       \* steps setupVideoPage pushed to its tasks array
  tasks,         \* started steps whose promise has not settled yet
  stepFailed,    \* a page call of some step of the current setup threw
  files,         \* [tried, saved]: artifacts of the current video
  discovery,     \* which extractVideoUrls source discovers the URLs
  anchors,       \* hrefs of the a[href*="/watch?v="] anchors, in DOM order
  found,         \* what extractVideoUrls returned, with its offset / limit
  writes,        \* file names written under metadata/, in write order
  helper,        \* the page-interaction helper under call
  helperSource,  \* which source of the helper: "service" or "lib"
  hcall,         \* position of the helper: index of its next page call
  hstatus,       \* "running", "resolved" or "rejected"
  hlog,          \* results of the page calls made so far
  extractor,     \* which extractVideoMetadata source reads the page
  lookups,       \* per field lookup of the page: how it settles
  extracted,     \* how extractVideoMetadata settled, and its record
  description,   \* the raw description handed to trimDescription
  cleaned,       \* what trimDescription returned
  backoff,       \* ExponentialBackoff: [baseDelay, maxRetries, maxDelay]
  attempt,       \* loop variable of execute
  calls,         \* outcomes of the invocations of operation, in order
  waited,        \* the delays execute slept, in order
  bstatus,       \* how execute settled, with its result or error
  matching,      \* consent selectors whose first element is visible
  dialogOpen,    \* the consent dialog is still on the page
  selectorTask,  \* per selector: position of its async callback
  issued         \* selectors on which locator.click() was called, in order

vars == <<orchestrator, mode, config, state, launched, openBrowsers,
          openContexts, pages, pc, videoUrls, i, page, success, failed,
          openPages, pending, outcome, summary, attempts, opened, navs,
          delays, cleanups, quit, ready, got, cleanupResult, stages,
          started, tasks, stepFailed, files, discovery, anchors, found,
          writes, helper, helperSource, hcall, hstatus, hlog, extractor,
          lookups, extracted, description, cleaned, backoff, attempt, calls,
          waited, bstatus, matching, dialogOpen, selectorTask, issued>>

svcVars == <<state, launched, openBrowsers, openContexts, pages, ready>>
runVars == <<videoUrls, i, page, success, failed, openPages, pending,
             outcome, summary, attempts, opened, navs, delays, quit>>
cfgVars == <<orchestrator, mode, config>>
clientVars == <<got, cleanupResult>>
videoVars == <<stages, started, tasks, stepFailed, files>>
discoveryVars == <<discovery, anchors, found, writes>>
helperVars == <<helper, helperSource, hcall, hstatus, hlog>>
metadataVars == <<extractor, lookups, extracted, description, cleaned>>
backoffVars == <<backoff, attempt, calls, waited, bstatus>>
consentVars == <<matching, dialogOpen, selectorTask, issued>>
unitVars == <<metadataVars, backoffVars, consentVars>>
pureVars == <<discoveryVars, helperVars, unitVars>>

Urls == 1..MaxVideos

NotCalled == [called |-> FALSE, threw |-> FALSE, context |-> NoHandle,
              ready |-> FALSE]

NoSummary == [total_attempted |-> -1, successful |-> -1, failed |-> -1]

\* extractVideoUrls has not run
NotRun == [ran |-> FALSE, urls |-> <<>>, offset |-> 0, maxVideos |-> 0]

\* nothing attempted and nothing written for the current video
NoFiles == [tried |-> {}, saved |-> {}]

\* extractVideoMetadata / trimDescription have not run
NotExtracted == [status |-> "none", fields |-> <<>>]
NotCleaned == [ran |-> FALSE, text |-> <<>>]

\* the units that take no part in a specification stay as constructed
MetadataIdle ==
  /\ extractor = "none"
  /\ lookups = <<>>
  /\ extracted = NotExtracted
  /\ description = <<>>
  /\ cleaned = NotCleaned

BackoffIdle ==
  /\ backoff = [baseDelay |-> 1, maxRetries |-> 0, maxDelay |-> 1]
  /\ attempt = 0
  /\ calls = <<>>
  /\ waited = <<>>
  /\ bstatus = [status |-> "idle", value |-> ""]

ConsentIdle ==
  /\ matching = {}
  /\ dialogOpen = FALSE
  /\ selectorTask = <<>>
  /\ issued = <<>>

\* outcomes of an awaited close(): it resolves, or it rejects and the
\* handle is left either gone or still open
CloseOutcomes == {"ok", "throw_closed", "throw_open"}
Closes(o) == o \in {"ok", "throw_closed"}
Throws(o) == o \in {"throw_closed", "throw_open"}

\* ------------------------------------------------------------ page helpers
NewPageRec(u) == [url |-> u, open |-> TRUE, closeCalled |-> FALSE]

\* page.close() on handle p with outcome o
ClosePage(ps, p, o) ==
  [ps EXCEPT ![p] = [@ EXCEPT !.open = IF Closes(o) THEN FALSE ELSE @,
                              !.closeCalled = TRUE]]

\* closing the context (or its browser) closes every page it owns
CloseAllPages(ps) == [k \in DOMAIN ps |-> [ps[k] EXCEPT !.open = FALSE]]

\* context.pages(): the open pages, in creation order
ContextPages(ps) == {k \in DOMAIN ps : ps[k].open}
LastPage(ps) ==
  IF ContextPages(ps) = {} THEN NoHandle
  ELSE CHOOSE k \in ContextPages(ps) : \A j \in ContextPages(ps) : j <= k

VideoPagesOpen == {k \in DOMAIN pages : pages[k].open /\ pages[k].url # 0}

\* ------------------------------------------------- browser service (state)
isInitialized == state.browser # NoHandle /\ state.context # NoHandle

\* initialize, first await: chromium.launch
InitializeLaunch(ok) ==
  IF ok
  THEN /\ launched' = launched + 1
       /\ state' = [state EXCEPT !.browser = launched + 1]
       /\ openBrowsers' = openBrowsers \cup {launched + 1}
  ELSE UNCHANGED <<launched, state, openBrowsers>>

\* initialize, second await: state.browser.newContext
InitializeContext(ok) ==
  IF ok
  THEN /\ state' = [state EXCEPT !.context = state.browser]
       /\ openContexts' = openContexts \cup {state.browser}
       /\ ready' = TRUE
  ELSE UNCHANGED <<state, openContexts, ready>>

\* cleanup, first half: if (state.context) { await close; context = null }
CleanupContext(o) ==
  /\ ready' = FALSE
  /\ IF state.context = NoHandle
     THEN UNCHANGED <<state, openContexts, pages>>
     ELSE /\ openContexts' = IF Closes(o) THEN openContexts \ {state.context}
                             ELSE openContexts
          /\ pages' = IF Closes(o) THEN CloseAllPages(pages) ELSE pages
          /\ state' = IF Throws(o) THEN state
                      ELSE [state EXCEPT !.context = NoHandle]

\* cleanup, second half: if (state.browser) { await close; browser = null }
CleanupBrowser(o) ==
  IF state.browser = NoHandle
  THEN UNCHANGED <<state, openBrowsers, openContexts, pages>>
  ELSE /\ openBrowsers' = IF Closes(o) THEN openBrowsers \ {state.browser}
                          ELSE openBrowsers
       /\ openContexts' = IF Closes(o) THEN openContexts \ {state.browser}
                          ELSE openContexts
       /\ pages' = IF Closes(o) THEN CloseAllPages(pages) ELSE pages
       /\ state' = IF Throws(o) THEN state
                   ELSE [state EXCEPT !.browser = NoHandle]

\* whether the half of cleanup rejects with outcome o
ContextCloseRejects(o) == state.context # NoHandle /\ Throws(o)
BrowserCloseRejects(o) == state.browser # NoHandle /\ Throws(o)

\* --------------------------------------------------------------- the run
Init ==
  /\ orchestrator \in {"screenshot", "output"}
  /\ mode \in {"channel", "single"}
  /\ (mode = "single" => orchestrator = "output")
  /\ config \in [interactive : BOOLEAN, maxRetries : RetryChoices,
                  useDarkMode : BOOLEAN, hideSuggestedVideos : BOOLEAN]
  /\ PageOptions(config) \in PageOptionChoices
  /\ state = [browser |-> NoHandle, context |-> NoHandle]
  /\ launched = 0
  /\ openBrowsers = {}
  /\ openContexts = {}
  /\ pages = <<>>
  /\ pc = "initialize"
  /\ videoUrls = <<>>
  /\ i = 1
  /\ page = NoHandle
  /\ success = <<>>
  /\ failed = <<>>
  /\ openPages = <<>>
  /\ pending = ""
  /\ outcome = "running"
  /\ summary = NoSummary
  /\ attempts = [u \in Urls |-> 0]
  /\ opened = [u \in Urls |-> 0]
  /\ navs = [u \in Urls |-> 0]
  /\ delays = 0
  /\ cleanups = 0
  /\ quit = FALSE
  /\ ready = FALSE
  /\ got = NotCalled
  /\ cleanupResult = "none"
  /\ stages = <<>>
  /\ started = {}
  /\ tasks = {}
  /\ stepFailed = FALSE
  /\ files = NoFiles
  /\ discovery = "service"
  /\ anchors = <<>>
  /\ found = NotRun
  /\ writes = <<>>
  /\ helper = "none"
  /\ helperSource = "service"
  /\ hcall = 1
  /\ hstatus = "resolved"
  /\ hlog = <<>>
  /\ MetadataIdle
  /\ BackoffIdle
  /\ ConsentIdle

\* scrapeChannel / scrapeSingleVideo: await browserService.initialize (launch)
RunInitialize ==
  /\ pc = "initialize"
  /\ \E ok \in BOOLEAN :
       /\ InitializeLaunch(ok)
       /\ pc' = IF ok THEN "initialize_context" ELSE "cleanup"
       /\ pending' = IF ok THEN "" ELSE "launch"
  /\ UNCHANGED <<cfgVars, pureVars, videoVars, openContexts, pages, ready, videoUrls, i, page,
                 success, failed, openPages, outcome, summary, attempts,
                 opened, navs, delays, cleanups, quit, clientVars>>

RunInitializeContext ==
  /\ pc = "initialize_context"
  /\ \E ok \in BOOLEAN :
       /\ InitializeContext(ok)
       /\ pending' = IF ok THEN "" ELSE "newContext"
       /\ pc' = IF ~ok THEN "cleanup"
                ELSE IF mode = "single" THEN "loop" ELSE "discover"
       /\ videoUrls' = IF ok /\ mode = "single" THEN <<1>> ELSE videoUrls
  /\ UNCHANGED <<cfgVars, pureVars, videoVars, launched, openBrowsers, pages, i, page, success,
                 failed, openPages, outcome, summary, attempts, opened, navs,
                 delays, cleanups, quit, clientVars>>

\* ---------------------------------------------------------- discovery
\* discoverVideoUrls: getContext(); await context.newPage()
DiscoverOpen ==
  /\ pc = "discover"
  /\ \E ok \in BOOLEAN :
       IF ok /\ state.context # NoHandle
       THEN /\ pages' = Append(pages, NewPageRec(0))
            /\ page' = Len(pages) + 1
            /\ pc' = "discover_body"
            /\ pending' = ""
       ELSE /\ pending' = "discover_newPage"
            /\ pc' = "cleanup"
            /\ UNCHANGED <<pages, page>>
  /\ UNCHANGED <<cfgVars, pureVars, videoVars, state, launched, openBrowsers, openContexts, ready,
                 videoUrls, i, success, failed, openPages, outcome, summary,
                 attempts, opened, navs, delays, cleanups, quit, clientVars>>

\* the try block: navigate, setup, scroll, extractVideoUrls
DiscoverBody ==
  /\ pc = "discover_body"
  /\ \/ \E n \in 0..MaxVideos :
          /\ videoUrls' = [k \in 1..n |-> k]
          /\ pending' = ""
     \/ /\ pending' = "discovery"
        /\ UNCHANGED videoUrls
  /\ pc' = "discover_close"
  /\ UNCHANGED <<cfgVars, pureVars, videoVars, svcVars, i, page, success, failed, openPages,
                 outcome, summary, attempts, opened, navs, delays, cleanups,
                 quit, clientVars>>

\* DiscoverClose as it would be if the page were closed on the success path
\* only
DiscoverCloseOnSuccess ==
  /\ pc = "discover_close"
  /\ IF pending # ""
     THEN /\ pc' = "cleanup"
          /\ UNCHANGED <<pages, pending>>
     ELSE \E o \in CloseOutcomes :
            /\ pages' = ClosePage(pages, page, o)
            /\ pending' = IF Throws(o) THEN "discover_close" ELSE pending
            /\ pc' = IF Throws(o) THEN "cleanup" ELSE "loop"
  /\ page' = NoHandle
  /\ UNCHANGED <<cfgVars, pureVars, videoVars, state, launched, openBrowsers,
                 openContexts, ready, videoUrls, i, success, failed,
                 openPages, outcome, summary, attempts, opened, navs, delays,
                 cleanups, quit, clientVars>>

\* finally { await page.close() }
DiscoverClose ==
  /\ pc = "discover_close"
  /\ \E o \in CloseOutcomes :
       /\ pages' = ClosePage(pages, page, o)
       /\ pending' = IF Throws(o) THEN "discover_close" ELSE pending
       /\ pc' = IF Throws(o) \/ pending # "" THEN "cleanup" ELSE "loop"
  /\ page' = NoHandle
  /\ UNCHANGED <<cfgVars, pureVars, videoVars, state, launched, openBrowsers, openContexts, ready,
                 videoUrls, i, success, failed, openPages, outcome, summary,
                 attempts, opened, navs, delays, cleanups, quit, clientVars>>

\* ------------------------------------------------------ the worker loop
N == Len(videoUrls)

\* one entry of the stage log: the stage, whether it completed, and the
\* setup steps that were still unsettled while it ran
StageRec(s, ok) == [stage |-> s, ok |-> ok, unsettled |-> tasks]

\* the tasks array of setupVideoPage
SetupSteps(c) ==
  {"handleConsentDialog", "dismissPopups", "pauseVideo", "expandDescription"}
  \cup (IF c.useDarkMode THEN {"enableDarkMode"} ELSE {})
  \cup (IF c.hideSuggestedVideos THEN {"hideSuggestedContent"} ELSE {})

\* the artifacts saveVideoData writes for one video
Artifacts == {"metadata", "image", "html", "screenshot"}

\* where an error thrown inside the try block of the page scrape goes:
\* scrapingOrchestrator.ts closes the page in its finally (non-interactive),
\* imageDownloadService.ts leaves the page to the caller's catch
AfterThrow ==
  IF orchestrator = "screenshot" /\ ~config.interactive
  THEN "v_finally" ELSE "v_catch"

\* LoopExit as it would be with the loop condition i < videoUrls.length - 1
LoopExitBeforeLast ==
  /\ pc = "loop"
  /\ i >= N
  /\ pc' = "after_loop"
  /\ UNCHANGED <<cfgVars, pureVars, videoVars, svcVars, runVars, cleanups, clientVars>>

\* loop exit: for (...; i < videoUrls.length; ...)
LoopExit ==
  /\ pc = "loop"
  /\ i > N
  /\ pc' = "after_loop"
  /\ UNCHANGED <<cfgVars, pureVars, videoVars, svcVars, runVars, cleanups, clientVars>>

\* getContext(); await context.newPage()   (before the try block)
VideoOpen ==
  /\ pc = "loop"
  /\ i <= N
  /\ attempts' = [attempts EXCEPT ![videoUrls[i]] = @ + 1]
  /\ \E ok \in BOOLEAN :
       IF ok /\ state.context # NoHandle
       THEN /\ pages' = Append(pages, NewPageRec(videoUrls[i]))
            /\ page' = Len(pages) + 1
            /\ opened' = [opened EXCEPT ![videoUrls[i]] = @ + 1]
            /\ pc' = "v_goto"
            /\ pending' = ""
       ELSE /\ pending' = "newPage"
            /\ page' = NoHandle
            /\ pc' = "v_catch"
            /\ UNCHANGED <<pages, opened>>
  /\ UNCHANGED <<cfgVars, pureVars, videoVars, state, launched, openBrowsers,
                 openContexts, ready, videoUrls, i, success, failed,
                 openPages, outcome, summary, navs, delays, cleanups, quit,
                 clientVars>>

\* VideoGoto as it would be if a failed navigation were swallowed and the
\* pipeline went on to the page setup
VideoGotoSwallowed ==
  /\ pc = "v_goto"
  /\ navs' = [navs EXCEPT ![videoUrls[i]] = @ + 1]
  /\ \E ok \in BOOLEAN :
       /\ pc' = "v_setup"
       /\ pending' = ""
       /\ stages' = Append(stages, StageRec("navigation", ok))
  /\ UNCHANGED <<cfgVars, pureVars, svcVars, videoUrls, i, page, success, failed,
                 openPages, outcome, summary, attempts, opened, delays,
                 cleanups, quit, clientVars, started, tasks, stepFailed,
                 files>>

\* await page.goto(url, {waitUntil: "networkidle", timeout})
VideoGoto ==
  /\ pc = "v_goto"
  /\ navs' = [navs EXCEPT ![videoUrls[i]] = @ + 1]
  /\ \E ok \in BOOLEAN :
       /\ pc' = IF ok THEN "v_setup" ELSE AfterThrow
       /\ pending' = IF ok THEN "" ELSE "goto"
       /\ stages' = Append(stages, StageRec("navigation", ok))
  /\ UNCHANGED <<cfgVars, pureVars, svcVars, videoUrls, i, page, success, failed,
                 openPages, outcome, summary, attempts, opened, delays,
                 cleanups, quit, clientVars, started, tasks, stepFailed,
                 files>>

\* await pageInteractionService.setupVideoPage: Promise.allSettled, resolves
VideoSetup ==
  /\ pc = "v_setup"
  /\ started' = SetupSteps(config)
  /\ tasks' = SetupSteps(config)
  /\ pc' = "v_setup_wait"
  /\ UNCHANGED <<cfgVars, pureVars, svcVars, runVars, cleanups, clientVars, stages,
                 stepFailed, files>>

\* one started step settles: every helper catches the errors of its page
\* calls, so its promise fulfils whether a call threw or not
SettleStep ==
  /\ tasks # {}
  /\ \E t \in tasks, threw \in BOOLEAN :
       /\ tasks' = tasks \ {t}
       /\ stepFailed' = (stepFailed \/ threw)
  /\ UNCHANGED <<cfgVars, pureVars, svcVars, pc, runVars, cleanups, clientVars, stages,
                 started, files>>

\* VideoSetupReturn as it would be with Promise.all in place of
\* Promise.allSettled and helpers that reject: it settles as soon as a step
\* has failed, and then rejects
VideoSetupFailFast ==
  /\ pc = "v_setup_wait"
  /\ tasks = {} \/ stepFailed
  /\ stages' = Append(stages, StageRec("interaction", ~stepFailed))
  /\ pending' = IF stepFailed THEN "setup" ELSE pending
  /\ pc' = IF stepFailed THEN AfterThrow ELSE "v_wait"
  /\ UNCHANGED <<cfgVars, pureVars, svcVars, videoUrls, i, page, success, failed,
                 openPages, outcome, summary, attempts, opened, navs, delays,
                 quit, cleanups, clientVars, started, tasks, stepFailed,
                 files>>

\* await Promise.allSettled(tasks): resumes once no started step is pending,
\* and never rejects
VideoSetupReturn ==
  /\ pc = "v_setup_wait"
  /\ tasks = {}
  /\ stages' = Append(stages, StageRec("interaction", TRUE))
  /\ pc' = "v_wait"
  /\ UNCHANGED <<cfgVars, pureVars, svcVars, runVars, cleanups, clientVars, started,
                 tasks, stepFailed, files>>

\* waitForSelector(h1) with the fallback waitForSelector(title), then the
\* initial page delay
VideoWait ==
  /\ pc = "v_wait"
  /\ \E ok \in BOOLEAN :
       /\ pc' = IF ok THEN "v_extract" ELSE AfterThrow
       /\ pending' = IF ok THEN "" ELSE "title"
  /\ UNCHANGED <<cfgVars, pureVars, videoVars, svcVars, videoUrls, i, page, success,
                 failed, openPages, outcome, summary, attempts, opened, navs,
                 delays, cleanups, quit, clientVars>>

\* await metadataExtractionService.extractVideoMetadata(page, url)
VideoExtract ==
  /\ pc = "v_extract"
  /\ \E ok \in BOOLEAN :
       /\ pc' = IF ok THEN "v_persist" ELSE AfterThrow
       /\ pending' = IF ok THEN "" ELSE "extract"
       /\ stages' = Append(stages, StageRec("extraction", ok))
  /\ UNCHANGED <<cfgVars, pureVars, svcVars, videoUrls, i, page, success, failed,
                 openPages, outcome, summary, attempts, opened, navs, delays,
                 cleanups, quit, clientVars, started, tasks, stepFailed,
                 files>>

\* SaveVideoData as it would be if a failed image download were rethrown
SaveVideoDataImageRequired(foldersOk, hasImage, written) ==
  IF ~foldersOk
  THEN [tried |-> {}, saved |-> {}, rejected |-> TRUE]
  ELSE IF "metadata" \notin written
  THEN [tried |-> {"metadata"}, saved |-> {}, rejected |-> TRUE]
  ELSE IF hasImage /\ "image" \notin written
  THEN [tried |-> {"metadata", "image"}, saved |-> {"metadata"},
        rejected |-> TRUE]
  ELSE [tried |-> IF hasImage THEN Artifacts ELSE Artifacts \ {"image"},
        saved |-> IF hasImage THEN written ELSE written \ {"image"},
        rejected |-> FALSE]

\* saveVideoData, in the order of its awaits: createContentFolders and the
\* writeFile of the metadata JSON reject the call when they fail; the image
\* download (only if metadata.image is set), the HTML snapshot and the
\* screenshot report a failure by their return value, which is only logged.
\* written: the artifacts whose write would succeed
SaveVideoData(foldersOk, hasImage, written) ==
  IF ~foldersOk
  THEN [tried |-> {}, saved |-> {}, rejected |-> TRUE]
  ELSE IF "metadata" \notin written
  THEN [tried |-> {"metadata"}, saved |-> {}, rejected |-> TRUE]
  ELSE [tried |-> IF hasImage THEN Artifacts ELSE Artifacts \ {"image"},
        saved |-> IF hasImage THEN written ELSE written \ {"image"},
        rejected |-> FALSE]

\* persistence: screenshotService.takeScreenshot swallows its errors;
\* videoOutputService.saveVideoData rethrows a failed required write
VideoPersist ==
  /\ pc = "v_persist"
  /\ IF orchestrator = "screenshot"
     THEN \E shot \in BOOLEAN :
            /\ files' = [tried |-> {"screenshot"},
                         saved |-> IF shot THEN {"screenshot"} ELSE {}]
            /\ stages' = Append(stages, StageRec("persistence", TRUE))
            /\ pending' = ""
            /\ pc' = IF ~config.interactive THEN "v_finally" ELSE "v_success"
     ELSE \E foldersOk, hasImage \in BOOLEAN, written \in SUBSET Artifacts :
            LET r == SaveVideoData(foldersOk, hasImage, written) IN
              /\ files' = [tried |-> r.tried, saved |-> r.saved]
              /\ stages' = Append(stages,
                                  StageRec("persistence", ~r.rejected))
              /\ pending' = IF r.rejected THEN "persist" ELSE ""
              /\ pc' = IF r.rejected THEN AfterThrow ELSE "v_success"
  /\ UNCHANGED <<cfgVars, pureVars, svcVars, videoUrls, i, page, success, failed,
                 openPages, outcome, summary, attempts, opened, navs, delays,
                 cleanups, quit, clientVars, started, tasks, stepFailed>>

\* scrapingOrchestrator.ts: finally { if (!config.interactive) page.close() }
VideoFinally ==
  /\ pc = "v_finally"
  /\ \E o \in CloseOutcomes :
       /\ pages' = ClosePage(pages, page, o)
       /\ pending' = IF Throws(o) THEN "close" ELSE pending
       /\ pc' = IF Throws(o) \/ pending # "" THEN "v_catch" ELSE "v_success"
  /\ UNCHANGED <<cfgVars, pureVars, videoVars, state, launched, openBrowsers, openContexts, ready,
                 videoUrls, i, page, success, failed, openPages, outcome,
                 summary, attempts, opened, navs, delays, cleanups, quit, clientVars>>

\* VideoSuccess as it would be if the newest result were put in front of the
\* earlier ones
VideoSuccessUnshift ==
  /\ pc = "v_success"
  /\ success' = <<videoUrls[i]>> \o success
  /\ IF config.interactive
     THEN /\ page' = IF orchestrator = "screenshot" THEN LastPage(pages)
                     ELSE page
          /\ openPages' = IF page' # NoHandle THEN Append(openPages, page')
                          ELSE openPages
          /\ pc' = "v_prompt"
     ELSE /\ page' = IF orchestrator = "screenshot" THEN NoHandle ELSE page
          /\ UNCHANGED openPages
          /\ pc' = IF orchestrator = "screenshot" THEN "v_next"
                   ELSE "v_close"
  /\ UNCHANGED <<cfgVars, pureVars, videoVars, svcVars, videoUrls, i, failed, pending,
                 outcome, summary, attempts, opened, navs, delays, cleanups,
                 quit, clientVars>>

\* try block of the loop after the page scrape returned:
\* success.push(metadata), then track / close the page
VideoSuccess ==
  /\ pc = "v_success"
  /\ success' = Append(success, videoUrls[i])
  /\ IF config.interactive
     THEN \* screenshot variant: page = context.pages()[last], pushed if set
          /\ page' = IF orchestrator = "screenshot" THEN LastPage(pages)
                     ELSE page
          /\ openPages' = IF page' # NoHandle THEN Append(openPages, page')
                          ELSE openPages
          /\ pc' = "v_prompt"
     ELSE /\ page' = IF orchestrator = "screenshot" THEN NoHandle ELSE page
          /\ UNCHANGED openPages
          /\ pc' = IF orchestrator = "screenshot" THEN "v_next"
                   ELSE "v_close"
  /\ UNCHANGED <<cfgVars, pureVars, videoVars, svcVars, videoUrls, i, failed, pending, outcome,
                 summary, attempts, opened, navs, delays, cleanups, quit,
                 clientVars>>

\* imageDownloadService.ts, non-interactive: await page.close() in the try
VideoClose ==
  /\ pc = "v_close"
  /\ \E o \in CloseOutcomes :
       /\ pages' = ClosePage(pages, page, o)
       /\ pending' = IF Throws(o) THEN "close" ELSE ""
       /\ pc' = IF Throws(o) THEN "v_catch" ELSE "v_next"
  /\ UNCHANGED <<cfgVars, pureVars, videoVars, state, launched, openBrowsers, openContexts, ready,
                 videoUrls, i, page, success, failed, openPages, outcome,
                 summary, attempts, opened, navs, delays, cleanups, quit, clientVars>>

PromptAnswers == {"n", "q", "throw"}

\* interactive mode: await promptUserAction() after a successful scrape
PromptAfterSuccess ==
  /\ pc = "v_prompt"
  /\ \E a \in PromptAnswers :
       /\ quit' = (quit \/ a = "q")
       /\ pending' = IF a = "throw" THEN "prompt" ELSE ""
       /\ pc' = CASE a = "q" -> "after_loop"
                  [] a = "throw" -> "v_catch"
                  [] OTHER -> IF orchestrator = "screenshot" /\ page # NoHandle
                              THEN "v_close_prompt" ELSE "v_next"
  /\ UNCHANGED <<cfgVars, pureVars, videoVars, svcVars, videoUrls, i, page, success, failed,
                 openPages, outcome, summary, attempts, opened, navs, delays,
                 cleanups, clientVars>>

\* scrapingOrchestrator.ts: if (page) await page.close() after the prompt
ClosePageAfterPrompt ==
  /\ pc = "v_close_prompt"
  /\ \E o \in CloseOutcomes :
       /\ pages' = ClosePage(pages, page, o)
       /\ pending' = IF Throws(o) THEN "close" ELSE ""
       /\ pc' = IF Throws(o) THEN "v_catch" ELSE "v_next"
  /\ UNCHANGED <<cfgVars, pureVars, videoVars, state, launched, openBrowsers, openContexts, ready,
                 videoUrls, i, page, success, failed, openPages, outcome,
                 summary, attempts, opened, navs, delays, cleanups, quit, clientVars>>

FailedVideo(u, e) ==
  [url |-> u, error |-> e, retries_attempted |-> config.maxRetries]

\* VideoCatch as it would be without the close of the failed video's page
VideoCatchNoClose ==
  /\ pc = "v_catch"
  /\ failed' = Append(failed, FailedVideo(videoUrls[i], pending))
  /\ pending' = ""
  /\ pc' = IF config.interactive THEN "v_prompt_failed" ELSE "v_next"
  /\ UNCHANGED <<cfgVars, pureVars, videoVars, svcVars, videoUrls, i, page, success, openPages,
                 outcome, summary, attempts, opened, navs, delays, cleanups,
                 quit, clientVars>>

\* catch (error): imageDownloadService.ts first tries to close the last page
\* of the context (non-interactive, errors ignored); then failed.push
VideoCatch ==
  /\ pc = "v_catch"
  /\ IF orchestrator = "output" /\ ~config.interactive
        /\ state.context # NoHandle /\ LastPage(pages) # NoHandle
     THEN \E o \in CloseOutcomes :
            pages' = ClosePage(pages, LastPage(pages), o)
     ELSE UNCHANGED pages
  /\ failed' = Append(failed, FailedVideo(videoUrls[i], pending))
  /\ pending' = ""
  /\ pc' = IF config.interactive THEN "v_prompt_failed" ELSE "v_next"
  /\ UNCHANGED <<cfgVars, pureVars, videoVars, state, launched, openBrowsers, openContexts, ready,
                 videoUrls, i, page, success, openPages, outcome, summary,
                 attempts, opened, navs, delays, cleanups, quit, clientVars>>

\* interactive mode: await promptUserAction() inside the catch block; an
\* error thrown here leaves scrapeVideos
PromptAfterFailure ==
  /\ pc = "v_prompt_failed"
  /\ \E a \in PromptAnswers :
       /\ quit' = (quit \/ a = "q")
       /\ pending' = IF a = "throw" THEN "prompt" ELSE ""
       /\ pc' = CASE a = "q" -> "after_loop"
                  [] a = "throw" -> "cleanup"
                  [] OTHER -> "v_next"
  /\ UNCHANGED <<cfgVars, pureVars, videoVars, svcVars, videoUrls, i, page, success, failed,
                 openPages, outcome, summary, attempts, opened, navs, delays,
                 cleanups, clientVars>>

\* NextVideo as it would be with an inline retry: a failed URL is re-driven
\* until maxRetries re-attempts were made
NextVideoRetry ==
  /\ pc = "v_next"
  /\ delays' = IF i < N /\ ~config.interactive THEN delays + 1 ELSE delays
  /\ i' = IF /\ failed # <<>>
             /\ failed[Len(failed)].url = videoUrls[i]
             /\ attempts[videoUrls[i]] <= config.maxRetries
          THEN i ELSE i + 1
  /\ page' = NoHandle
  /\ pc' = "loop"
  /\ stages' = <<>>
  /\ started' = {}
  /\ stepFailed' = FALSE
  /\ files' = NoFiles
  /\ UNCHANGED <<cfgVars, pureVars, tasks, svcVars, videoUrls, success, failed, openPages,
                 pending, outcome, summary, attempts, opened, navs, cleanups,
                 quit, clientVars>>

\* NextVideo as it would be if the backoff delay also followed the last URL
NextVideoDelayAfterLast ==
  /\ pc = "v_next"
  /\ delays' = IF ~config.interactive THEN delays + 1 ELSE delays
  /\ i' = i + 1
  /\ page' = NoHandle
  /\ pc' = "loop"
  /\ stages' = <<>>
  /\ started' = {}
  /\ stepFailed' = FALSE
  /\ files' = NoFiles
  /\ UNCHANGED <<cfgVars, pureVars, tasks, svcVars, videoUrls, success, failed, openPages,
                 pending, outcome, summary, attempts, opened, navs, cleanups,
                 quit, clientVars>>

\* if (i < videoUrls.length - 1 && !config.interactive) await backoff.delay();
\* then i++
NextVideo ==
  /\ pc = "v_next"
  /\ delays' = IF i < N /\ ~config.interactive THEN delays + 1 ELSE delays
  /\ i' = i + 1
  /\ page' = NoHandle
  /\ pc' = "loop"
  /\ stages' = <<>>
  /\ started' = {}
  /\ stepFailed' = FALSE
  /\ files' = NoFiles
  /\ UNCHANGED <<cfgVars, pureVars, tasks, svcVars, videoUrls, success, failed, openPages,
                 pending, outcome, summary, attempts, opened, navs, cleanups,
                 quit, clientVars>>

\* the open pages among the tracked ones
TrackedOpen == {openPages[k] : k \in DOMAIN openPages} \cap ContextPages(pages)

\* if (interactive && openPages.length > 0)
\*   await Promise.all(openPages.map(p => p.close().catch(() => {})))
\* then return {success, failed}
CloseRemaining ==
  /\ pc = "after_loop"
  /\ IF config.interactive /\ Len(openPages) > 0
     THEN \E stay \in SUBSET TrackedOpen :
            pages' = [k \in DOMAIN pages |->
                        IF k \in {openPages[j] : j \in DOMAIN openPages}
                        THEN [pages[k] EXCEPT !.open = (k \in stay),
                                              !.closeCalled = TRUE]
                        ELSE pages[k]]
     ELSE UNCHANGED pages
  /\ pc' = "summary"
  /\ UNCHANGED <<cfgVars, pureVars, videoVars, state, launched, openBrowsers, openContexts, ready,
                 runVars, cleanups, clientVars>>

\* scrapeChannel / scrapeSingleVideo assemble the ScrapingResult
Summarize ==
  /\ pc = "summary"
  /\ summary' = [total_attempted |-> IF mode = "single" THEN 1 ELSE N,
                 successful |-> Len(success),
                 failed |-> Len(failed)]
  /\ pc' = "cleanup"
  /\ UNCHANGED <<cfgVars, pureVars, videoVars, svcVars, videoUrls, i, page, success, failed,
                 openPages, pending, outcome, attempts, opened, navs, delays,
                 quit, cleanups, clientVars>>

\* finally { await browserService.cleanup() }: context half
RunCleanupContext ==
  /\ pc = "cleanup"
  /\ cleanups' = cleanups + 1
  /\ \E o \in CloseOutcomes :
       /\ CleanupContext(o)
       /\ pc' = IF ContextCloseRejects(o) THEN "done" ELSE "cleanup_browser"
       /\ outcome' = IF ContextCloseRejects(o) THEN "rejected" ELSE outcome
       /\ cleanupResult' = IF ContextCloseRejects(o) THEN "rejected"
                           ELSE "running"
  /\ UNCHANGED <<cfgVars, pureVars, videoVars, launched, openBrowsers, videoUrls, i, page, success,
                 failed, openPages, pending, summary, attempts, opened, navs,
                 delays, quit, got>>

\* browser half of cleanup; then the run function settles
RunCleanupBrowser ==
  /\ pc = "cleanup_browser"
  /\ \E o \in CloseOutcomes :
       /\ CleanupBrowser(o)
       /\ outcome' = IF BrowserCloseRejects(o) \/ pending # ""
                     THEN "rejected" ELSE "resolved"
       /\ cleanupResult' = IF BrowserCloseRejects(o) THEN "rejected"
                           ELSE "resolved"
  /\ pc' = "done"
  /\ UNCHANGED <<cfgVars, pureVars, videoVars, launched, ready, videoUrls, i, page, success,
                 failed, openPages, pending, summary, attempts, opened, navs,
                 delays, quit, cleanups, got>>

\* main: the try block starts with mkdir(config.outputDir); when that
\* rejects the catch block calls process.exit(1) before any browser is
\* launched
MainMkdirFails ==
  /\ pc = "initialize"
  /\ pc' = "exit_1"
  /\ UNCHANGED <<cfgVars, pureVars, videoVars, svcVars, runVars, cleanups,
                 clientVars>>

\* main, once scrapeChannel / scrapeSingleVideo has settled: a rejection
\* reaches catch { process.exit(1) }; otherwise the finally block runs the
\* container's cleanup, which finds the service not initialized (cleanup has
\* released both handles whenever the run resolves), and the process ends
\* with exit code 0
MainExit ==
  /\ pc = "done"
  /\ pc' = IF outcome = "rejected" THEN "exit_1" ELSE "exit_0"
  /\ UNCHANGED <<cfgVars, pureVars, videoVars, svcVars, runVars, cleanups,
                 clientVars>>

Next ==
  \/ RunInitialize
  \/ RunInitializeContext
  \/ DiscoverOpen
  \/ DiscoverBody
  \/ DiscoverClose
  \/ LoopExit
  \/ VideoOpen
  \/ VideoGoto
  \/ VideoSetup
  \/ SettleStep
  \/ VideoSetupReturn
  \/ VideoWait
  \/ VideoExtract
  \/ VideoPersist
  \/ VideoFinally
  \/ VideoSuccess
  \/ VideoClose
  \/ PromptAfterSuccess
  \/ ClosePageAfterPrompt
  \/ VideoCatch
  \/ PromptAfterFailure
  \/ NextVideo
  \/ CloseRemaining
  \/ Summarize
  \/ RunCleanupContext
  \/ RunCleanupBrowser
  \/ MainMkdirFails
  \/ MainExit

Spec == Init /\ [][Next]_vars

\* ------------------------------------------- the non-interactive run
\* The run function of scrapingOrchestrator.ts alone (scrapeChannel, without
\* main) with config.interactive false: no prompt
\* is ever reached and the page is closed in the finally block. Every
\* step is one awaited browser or file operation; weak fairness says that
\* each of them settles (resolves or rejects), which is what the
\* per-operation timeouts of Playwright provide.
InitBatch ==
  /\ Init
  /\ orchestrator = "screenshot"
  /\ ~config.interactive

NextBatch ==
  \/ RunInitialize
  \/ RunInitializeContext
  \/ DiscoverOpen
  \/ DiscoverBody
  \/ DiscoverClose
  \/ LoopExit
  \/ VideoOpen
  \/ VideoGoto
  \/ VideoSetup
  \/ SettleStep
  \/ VideoSetupReturn
  \/ VideoWait
  \/ VideoExtract
  \/ VideoPersist
  \/ VideoFinally
  \/ VideoSuccess
  \/ VideoCatch
  \/ NextVideo
  \/ CloseRemaining
  \/ Summarize
  \/ RunCleanupContext
  \/ RunCleanupBrowser

SpecBatch == InitBatch /\ [][NextBatch]_vars /\ WF_vars(NextBatch)

\* ------------------------------------- the browser service on its own:
\* a client of the (singleton) container calls initialize, getContext,
\* cleanup and the container's cleanup in any order, one call at a time
InitService ==
  /\ orchestrator = "screenshot"
  /\ mode = "channel"
  /\ config \in [interactive : {FALSE}, maxRetries : {3},
                  useDarkMode : {FALSE}, hideSuggestedVideos : {FALSE}]
  /\ state = [browser |-> NoHandle, context |-> NoHandle]
  /\ launched = 0
  /\ openBrowsers = {}
  /\ openContexts = {}
  /\ pages = <<>>
  /\ pc = "idle"
  /\ videoUrls = <<>>
  /\ i = 1
  /\ page = NoHandle
  /\ success = <<>>
  /\ failed = <<>>
  /\ openPages = <<>>
  /\ pending = ""
  /\ outcome = "running"
  /\ summary = NoSummary
  /\ attempts = [u \in Urls |-> 0]
  /\ opened = [u \in Urls |-> 0]
  /\ navs = [u \in Urls |-> 0]
  /\ delays = 0
  /\ cleanups = 0
  /\ quit = FALSE
  /\ ready = FALSE
  /\ got = NotCalled
  /\ cleanupResult = "none"
  /\ stages = <<>>
  /\ started = {}
  /\ tasks = {}
  /\ stepFailed = FALSE
  /\ files = NoFiles
  /\ discovery = "service"
  /\ anchors = <<>>
  /\ found = NotRun
  /\ writes = <<>>
  /\ helper = "none"
  /\ helperSource = "service"
  /\ hcall = 1
  /\ hstatus = "resolved"
  /\ hlog = <<>>
  /\ MetadataIdle
  /\ BackoffIdle
  /\ ConsentIdle

SvcInitialize ==
  /\ pc = "idle"
  /\ launched < MaxLaunch
  /\ \E ok \in BOOLEAN :
       /\ InitializeLaunch(ok)
       /\ pc' = IF ok THEN "svc_initialize_context" ELSE "idle"
  /\ cleanupResult' = "none"
  /\ UNCHANGED <<cfgVars, pureVars, videoVars, openContexts, pages, ready, runVars, cleanups, got>>

SvcInitializeContext ==
  /\ pc = "svc_initialize_context"
  /\ \E ok \in BOOLEAN : InitializeContext(ok)
  /\ pc' = "idle"
  /\ UNCHANGED <<cfgVars, pureVars, videoVars, launched, openBrowsers, pages, runVars, cleanups,
                 clientVars>>

\* getContext(): synchronous, so it can run while another call is awaiting
SvcGetContext ==
  /\ got' = [called |-> TRUE,
             threw |-> (state.context = NoHandle),
             context |-> state.context,
             ready |-> ready]
  /\ UNCHANGED <<cfgVars, pureVars, videoVars, svcVars, pc, runVars, cleanups, cleanupResult>>

SvcCleanup ==
  /\ pc = "idle"
  /\ \E o \in CloseOutcomes :
       /\ CleanupContext(o)
       /\ pc' = IF ContextCloseRejects(o) THEN "idle"
                ELSE "svc_cleanup_browser"
       /\ cleanupResult' = IF ContextCloseRejects(o) THEN "rejected"
                           ELSE "running"
  /\ UNCHANGED <<cfgVars, pureVars, videoVars, launched, openBrowsers, runVars, cleanups, got>>

SvcCleanupBrowser ==
  /\ pc = "svc_cleanup_browser"
  /\ \E o \in CloseOutcomes :
       /\ CleanupBrowser(o)
       /\ cleanupResult' = IF BrowserCloseRejects(o) THEN "rejected"
                           ELSE "resolved"
  /\ pc' = "idle"
  /\ UNCHANGED <<cfgVars, pureVars, videoVars, launched, ready, runVars, cleanups, got>>

\* the container's cleanup: if (browserService.isInitialized()) cleanup()
SvcContainerCleanup ==
  /\ isInitialized
  /\ SvcCleanup

NextService ==
  \/ SvcInitialize
  \/ SvcInitializeContext
  \/ SvcGetContext
  \/ SvcCleanup
  \/ SvcCleanupBrowser
  \/ SvcContainerCleanup

SpecService == InitService /\ [][NextService]_vars

\* ------------------------------------------ URL discovery as a function
\* An href is the sequence of characters that follows the common prefix
\* "https://www.youtube.com/watch?v=" of every anchor the selector
\* a[href*="/watch?v="] returns: a video id and then tracking parameters.
VideoIds == {<<"a">>, <<"b">>, <<"a", "b">>}
ParamTails == {<<>>, <<"&", "t">>, <<"&", "p", "&", "t">>}
Hrefs == {id \o tail : id \in VideoIds, tail \in ParamTails}
AnchorLists == UNION {[1..n -> Hrefs] : n \in 0..MaxAnchors}

\* s.split(sep)[0]: the characters before the first sep
RECURSIVE SplitFirst(_, _)
SplitFirst(s, sep) ==
  IF s = <<>> \/ Head(s) = sep THEN <<>>
  ELSE <<Head(s)>> \o SplitFirst(Tail(s), sep)

\* [...new Set(list)]: the distinct elements in first-seen order
RECURSIVE Unique(_)
Unique(list) ==
  IF list = <<>> THEN <<>>
  ELSE LET init == Unique(SubSeq(list, 1, Len(list) - 1))
           last == list[Len(list)]
       IN IF \E k \in DOMAIN init : init[k] = last THEN init
          ELSE Append(init, last)

\* Array.prototype.slice(start, end) on integers
RelativeIndex(len, k) ==
  IF k < 0 THEN (IF len + k < 0 THEN 0 ELSE len + k)
  ELSE (IF k > len THEN len ELSE k)

\* JsSlice as it would be if its second argument were a count
JsSliceByCount(list, start, end) ==
  LET from == RelativeIndex(Len(list), start)
      to == RelativeIndex(Len(list), from + end)
  IN SubSeq(list, from + 1, to)

JsSlice(list, start, end) ==
  LET from == RelativeIndex(Len(list), start)
      to == RelativeIndex(Len(list), end)
  IN SubSeq(list, from + 1, to)

\* links.map(...) of the two sources: videoDiscoveryService.ts keeps
\* href.split("&")[0]; the lib orchestrator keeps the whole href (its filter
\* href.includes("/watch?v=") passes every selected anchor)
MapHref(variant, href) ==
  IF variant = "service" THEN SplitFirst(href, "&") ELSE href

uniqueUrls(variant, links) ==
  Unique([k \in DOMAIN links |-> MapHref(variant, links[k])])

\* uniqueUrls.slice(offset, offset + maxVideos)
extractVideoUrls(variant, links, offset, maxVideos) ==
  JsSlice(uniqueUrls(variant, links), offset, offset + maxVideos)

\* url.match(/[?&]v=([^&#]*)/): the v parameter up to the next & or #
RECURSIVE extractVideoId(_)
extractVideoId(url) ==
  IF url = <<>> \/ Head(url) \in {"&", "#"} THEN <<>>
  ELSE <<Head(url)>> \o extractVideoId(Tail(url))

\* dates a scraped page can carry: none, an unparsable one, a valid one
DateStrings == {"", "soon", "2024-03-05T10:00:00Z"}

\* formatDateForFolder: null (the empty sequence) for a missing or invalid
\* date, else format(date, "yy-MM-dd")
formatDateForFolder(dateString) ==
  IF dateString = "2024-03-05T10:00:00Z" THEN <<"24-03-05">> ELSE <<>>

\* generateFileName: `${datePrefix} ${videoId}`, or the video id alone
generateFileName(metadata) ==
  LET videoId == extractVideoId(metadata.scraped_url)
      dateToUse == IF metadata.uploadDate # "" THEN metadata.uploadDate
                   ELSE metadata.datePublished
      datePrefix == formatDateForFolder(dateToUse)
  IN IF datePrefix # <<>> THEN datePrefix \o <<" ">> \o videoId ELSE videoId

InitDiscovery ==
  /\ orchestrator = "output"
  /\ mode = "channel"
  /\ config \in [interactive : {FALSE}, maxRetries : {3},
                  useDarkMode : {FALSE}, hideSuggestedVideos : {FALSE}]
  /\ state = [browser |-> NoHandle, context |-> NoHandle]
  /\ launched = 0
  /\ openBrowsers = {}
  /\ openContexts = {}
  /\ pages = <<>>
  /\ pc = "extract_urls"
  /\ videoUrls = <<>>
  /\ i = 1
  /\ page = NoHandle
  /\ success = <<>>
  /\ failed = <<>>
  /\ openPages = <<>>
  /\ pending = ""
  /\ outcome = "running"
  /\ summary = NoSummary
  /\ attempts = [u \in Urls |-> 0]
  /\ opened = [u \in Urls |-> 0]
  /\ navs = [u \in Urls |-> 0]
  /\ delays = 0
  /\ cleanups = 0
  /\ quit = FALSE
  /\ ready = FALSE
  /\ got = NotCalled
  /\ cleanupResult = "none"
  /\ stages = <<>>
  /\ started = {}
  /\ tasks = {}
  /\ stepFailed = FALSE
  /\ files = NoFiles
  /\ discovery \in {"service", "lib"}
  /\ anchors \in AnchorLists
  /\ found = NotRun
  /\ writes = <<>>
  /\ helper = "none"
  /\ helperSource = "service"
  /\ hcall = 1
  /\ hstatus = "resolved"
  /\ hlog = <<>>
  /\ MetadataIdle
  /\ BackoffIdle
  /\ ConsentIdle

\* discoverVideoUrls: extractVideoUrls(page, config) on the loaded page
ExtractVideoUrls ==
  /\ pc = "extract_urls"
  /\ \E offset \in 0..MaxOffset, maxVideos \in 0..MaxLimit :
       found' = [ran |-> TRUE,
                 urls |-> extractVideoUrls(discovery, anchors, offset,
                                           maxVideos),
                 offset |-> offset,
                 maxVideos |-> maxVideos]
  /\ pc' = "save_metadata"
  /\ UNCHANGED <<cfgVars, videoVars, svcVars, runVars, cleanups, clientVars,
                 discovery, anchors, writes, helperVars,
                 unitVars>>

\* the run scrapes the discovered URLs in order; saveVideoData writes
\* metadata/<generateFileName(metadata)>.json for the next one
SaveMetadata ==
  /\ pc = "save_metadata"
  /\ Len(writes) < Len(found.urls)
  /\ \E uploadDate, datePublished \in DateStrings :
       writes' = Append(writes,
                        generateFileName(
                          [scraped_url |-> found.urls[Len(writes) + 1],
                           uploadDate |-> uploadDate,
                           datePublished |-> datePublished]))
  /\ UNCHANGED <<cfgVars, videoVars, svcVars, pc, runVars, cleanups,
                 clientVars, discovery, anchors, found, helperVars,
                 unitVars>>

NextDiscovery ==
  \/ ExtractVideoUrls
  \/ SaveMetadata

SpecDiscovery == InitDiscovery /\ [][NextDiscovery]_vars

\* ------------------------------------- page-interaction helpers, one call
\* A helper is the list of the page calls it awaits. A call resolves (with
\* true or false where the helper branches on the value) or throws; guarded
\* says whether it sits inside a try block of the helper, and onTrue /
\* onFalse / onThrow name the call the helper goes on with (0: it returns).
Call(name, guarded, onTrue, onFalse, onThrow) ==
  [call |-> name, guarded |-> guarded, onTrue |-> onTrue,
   onFalse |-> onFalse, onThrow |-> onThrow]

SCROLL_ITERATIONS == 5

\* findAndClickButton over n selectors (pageInteractionService): the whole
\* body is one try block; each selector is checked and clicked inside its
\* own try; after a click the helper waits once more. Calls 2..4n+1 are, per
\* selector, isVisible / click before any click succeeded and isVisible /
\* click after one did; call 4n+2 is the final wait.
FindAndClickButton(n) ==
  LET final == 4 * n + 2
      after(j, clicked) ==
        IF j < n THEN 2 + 4 * j + 2 * clicked
        ELSE IF clicked = 1 THEN final ELSE 0
  IN [p \in 1..final |->
        IF p = 1
        THEN Call("waitForTimeout", TRUE,
                  IF n = 0 THEN 0 ELSE 2, IF n = 0 THEN 0 ELSE 2, 0)
        ELSE IF p = final
        THEN Call("waitForTimeout", TRUE, 0, 0, 0)
        ELSE LET j == ((p - 2) \div 4) + 1
                 clicked == ((p - 2) % 4) \div 2
             IN IF (p - 2) % 2 = 0
                THEN Call("isVisible", TRUE, p + 1, after(j, clicked),
                          after(j, clicked))
                ELSE Call("click", TRUE, after(j, 1), after(j, 1),
                          after(j, clicked))]

\* clickElement over n selectors (lib/browser.ts): the for loop sits in one
\* try block and returns after the first click; the trailing
\* waitForTimeout(PAUSE) is outside the try
ClickElement(n) ==
  LET wait == 2 * n + 1
  IN [p \in 1..wait |->
        IF p = wait THEN Call("waitForTimeout", FALSE, 0, 0, 0)
        ELSE IF p % 2 = 1
        THEN Call("isVisible", TRUE, p + 1, p + 2, wait)
        ELSE Call("click", TRUE, 0, 0, wait)]

\* scrollToLoadVideos: evaluate and waitForTimeout per iteration, no try
\* block; the lib source scrolls back to the top afterwards
ScrollToLoadVideos(rounds) ==
  [p \in 1..(2 * rounds) |->
     Call(IF p % 2 = 1 THEN "evaluate" ELSE "waitForTimeout", FALSE,
          IF p = 2 * rounds THEN 0 ELSE p + 1,
          IF p = 2 * rounds THEN 0 ELSE p + 1, 0)]

Helpers == {"handleConsentDialog", "dismissPopups", "expandDescription",
            "pauseVideo", "enableDarkMode", "hideSuggestedContent",
            "scrollToLoadVideos"}

ServiceHelper(h) ==
  CASE h = "handleConsentDialog" -> FindAndClickButton(5)
    [] h = "dismissPopups" -> FindAndClickButton(0)
    [] h = "expandDescription" -> FindAndClickButton(1)
    [] h = "hideSuggestedContent" -> FindAndClickButton(3)
    [] h = "pauseVideo" ->
         <<Call("waitForSelector", TRUE, 2, 2, 0),
           Call("evaluate", TRUE, 0, 0, 0)>>
    [] h = "enableDarkMode" -> <<Call("emulateMedia", TRUE, 0, 0, 0)>>
    [] h = "scrollToLoadVideos" -> ScrollToLoadVideos(SCROLL_ITERATIONS)

LibHelper(h) ==
  CASE h = "handleConsentDialog" -> ClickElement(1)
    [] h = "dismissPopups" -> ClickElement(5)
    [] h = "expandDescription" -> ClickElement(1)
    [] h = "hideSuggestedContent" ->
         <<Call("addStyleTag", TRUE, 2, 2, 2),
           Call("waitForTimeout", FALSE, 0, 0, 0)>>
    [] h = "pauseVideo" ->
         <<Call("waitForSelector", TRUE, 2, 2, 3),
           Call("evaluate", TRUE, 3, 3, 3),
           Call("waitForTimeout", FALSE, 0, 0, 0)>>
    [] h = "enableDarkMode" ->
         <<Call("evaluate", TRUE, 2, 2, 2),
           Call("waitForTimeout", FALSE, 0, 0, 0)>>
    [] h = "scrollToLoadVideos" -> ScrollToLoadVideos(SCROLL_ITERATIONS + 1)

HelperCalls ==
  IF helperSource = "service" THEN ServiceHelper(helper)
  ELSE LibHelper(helper)

InitHelpers ==
  /\ orchestrator = "output"
  /\ mode = "channel"
  /\ config \in [interactive : {FALSE}, maxRetries : {3},
                  useDarkMode : {FALSE}, hideSuggestedVideos : {FALSE}]
  /\ state = [browser |-> NoHandle, context |-> NoHandle]
  /\ launched = 0
  /\ openBrowsers = {}
  /\ openContexts = {}
  /\ pages = <<>>
  /\ pc = "helper"
  /\ videoUrls = <<>>
  /\ i = 1
  /\ page = NoHandle
  /\ success = <<>>
  /\ failed = <<>>
  /\ openPages = <<>>
  /\ pending = ""
  /\ outcome = "running"
  /\ summary = NoSummary
  /\ attempts = [u \in Urls |-> 0]
  /\ opened = [u \in Urls |-> 0]
  /\ navs = [u \in Urls |-> 0]
  /\ delays = 0
  /\ cleanups = 0
  /\ quit = FALSE
  /\ ready = FALSE
  /\ got = NotCalled
  /\ cleanupResult = "none"
  /\ stages = <<>>
  /\ started = {}
  /\ tasks = {}
  /\ stepFailed = FALSE
  /\ files = NoFiles
  /\ discovery = "service"
  /\ anchors = <<>>
  /\ found = NotRun
  /\ writes = <<>>
  /\ helper \in Helpers
  /\ helperSource \in {"service", "lib"}
  /\ hcall = 1
  /\ hstatus = "running"
  /\ hlog = <<>>
  /\ MetadataIdle
  /\ BackoffIdle
  /\ ConsentIdle

\* where the helper goes on after its current call settled with result r
Continue(target, r) ==
  /\ hlog' = Append(hlog, r)
  /\ IF target = 0
     THEN hstatus' = "resolved" /\ UNCHANGED hcall
     ELSE hcall' = target /\ UNCHANGED hstatus

\* the awaited page call resolves
PageCallResolves ==
  /\ pc = "helper"
  /\ hstatus = "running"
  /\ LET c == HelperCalls[hcall] IN
       \/ Continue(c.onTrue, "true")
       \/ c.call = "isVisible" /\ Continue(c.onFalse, "false")
  /\ UNCHANGED <<cfgVars, videoVars, svcVars, pc, runVars, cleanups,
                 clientVars, discoveryVars, helper, helperSource,
                 unitVars>>

\* the awaited page call throws: a try block of the helper catches it, or
\* the helper's promise rejects
PageCallThrows ==
  /\ pc = "helper"
  /\ hstatus = "running"
  /\ LET c == HelperCalls[hcall] IN
       IF c.guarded THEN Continue(c.onThrow, "throw")
       ELSE /\ hstatus' = "rejected"
            /\ hlog' = Append(hlog, "throw")
            /\ UNCHANGED hcall
  /\ UNCHANGED <<cfgVars, videoVars, svcVars, pc, runVars, cleanups,
                 clientVars, discoveryVars, helper, helperSource,
                 unitVars>>

NextHelpers ==
  \/ PageCallResolves
  \/ PageCallThrows

SpecHelpers == InitHelpers /\ [][NextHelpers]_vars

\* ------------------------------------ metadata extraction, one video page
\* A lookup of the page settles with a value, with nothing (null text, a
\* meta tag that is not in the document, a missing element) or by throwing.
\* In a record "v" stands for a non-empty string, "" for the empty string
\* (or the empty list of tags) and "undefined" for a property without value.
Extractors == {"selector", "meta", "lib"}

\* the ten page.textContent / page.getAttribute calls of the selector
\* strategy, by the field they fill
SelectorLookups == {"title", "author", "viewCount", "likeCount",
                    "description", "uploadDate", "category", "channelUrl",
                    "duration", "thumbnailUrl"}

\* the meta-tag strategy: the field of the record and the tag it is read from
FieldTag == [id |-> "identifier", url |-> "og:url", title |-> "og:title",
             description |-> "og:description", keywords |-> "keywords",
             image |-> "og:image", name |-> "name", duration |-> "duration",
             width |-> "width", height |-> "height",
             userInteractionCount |-> "userInteractionCount",
             datePublished |-> "datePublished", uploadDate |-> "uploadDate",
             genre |-> "genre"]
MetaTags == {FieldTag[f] : f \in DOMAIN FieldTag}

\* the lookups a strategy makes: the selector strategy adds extractTags; the
\* meta-tag strategies read all tags with one page.evaluate ("meta") and the
\* expanded description with a second one
LookupsOf(e) ==
  IF e = "selector" THEN SelectorLookups \cup {"tags"}
  ELSE MetaTags \cup {"meta", "expandedDescription"}

\* how a lookup can settle: a tag of the document is there or not, and only
\* a page call can throw
OutcomesOf(e, l) ==
  IF e = "selector" THEN {"value", "absent", "throws"}
  ELSE IF l = "meta" THEN {"value", "throws"}
  ELSE IF l = "expandedDescription" THEN {"value", "absent", "throws"}
  ELSE {"value", "absent"}

\* text?.trim() || "", value || ""
OrEmpty(o) == IF o = "value" THEN "v" ELSE ""

\* combinedMetaTags[tag] without a default
OrUndefined(o) == IF o = "value" THEN "v" ELSE "undefined"

Rejected(e) == [status |-> "rejected", error |-> e, fields |-> <<>>]
Resolved(f) == [status |-> "resolved", error |-> "", fields |-> f]

\* metadataExtractionService, selector strategy: Promise.all over the ten
\* lookups rejects when one of them throws and the catch rethrows;
\* extractTags catches and returns []; publishedDate repeats uploadDate
extractSelectorMetadata(l) ==
  IF \E s \in SelectorLookups : l[s] = "throws" THEN Rejected("page")
  ELSE Resolved([f \in SelectorLookups \cup {"publishedDate", "tags", "url"}
                   |-> CASE f = "url" -> "v"
                         [] f = "publishedDate" -> OrEmpty(l["uploadDate"])
                         [] OTHER -> OrEmpty(l[f])])

\* metadataExtractionService, meta-tag strategy: the fields are the entries
\* of combinedMetaTags as they are; expandedDescription is innerText || ""
extractMetaMetadata(l) ==
  IF l["meta"] = "throws" \/ l["expandedDescription"] = "throws"
  THEN Rejected("page")
  ELSE Resolved([f \in DOMAIN FieldTag \cup {"expandedDescription",
                                             "scraped_url"}
                   |-> CASE f = "scraped_url" -> "v"
                         [] f = "expandedDescription" -> OrEmpty(l[f])
                         [] OTHER -> OrUndefined(l[FieldTag[f]])])

\* lib/scrapeVideoPage.ts: the same reads, every field defaulted with || ""
extractLibMetadata(l) ==
  IF l["meta"] = "throws" \/ l["expandedDescription"] = "throws"
  THEN Rejected("page")
  ELSE Resolved([f \in DOMAIN FieldTag \cup {"expandedDescription",
                                             "scraped_url"}
                   |-> CASE f = "scraped_url" -> "v"
                         [] f = "expandedDescription" -> OrEmpty(l[f])
                         [] OTHER -> OrEmpty(l[FieldTag[f]])])

extractVideoMetadata(e, l) ==
  CASE e = "selector" -> extractSelectorMetadata(l)
    [] e = "meta" -> extractMetaMetadata(l)
    [] e = "lib" -> extractLibMetadata(l)

\* the lookup a field of the record is filled from ("" for a field that is
\* not read from the page)
LookupOf(e, f) ==
  CASE f \in {"url", "scraped_url"} -> ""
    [] f = "publishedDate" -> "uploadDate"
    [] e # "selector" /\ f \in DOMAIN FieldTag -> FieldTag[f]
    [] OTHER -> f

\* the pages a strategy is run on: up to MaxMissing lookups do not deliver,
\* or no field lookup delivers at all; each of them settles in one of the
\* ways OutcomesOf allows
MissingSets(e) ==
  {D \in SUBSET LookupsOf(e) : Cardinality(D) <= MaxMissing}
  \cup {LookupsOf(e) \ {"meta"}}

PagesMissing(e, D) ==
  {[l \in LookupsOf(e) |-> IF l \in D THEN how[l] ELSE "value"] :
     how \in {h \in [D -> {"absent", "throws"}] :
                \A l \in D : h[l] \in OutcomesOf(e, l)}}

Pages(e) == UNION {PagesMissing(e, D) : D \in MissingSets(e)}

InitMetadata ==
  /\ orchestrator = "output"
  /\ mode = "single"
  /\ config \in [interactive : {FALSE}, maxRetries : {3},
                  useDarkMode : {FALSE}, hideSuggestedVideos : {FALSE}]
  /\ state = [browser |-> NoHandle, context |-> NoHandle]
  /\ launched = 0
  /\ openBrowsers = {}
  /\ openContexts = {}
  /\ pages = <<>>
  /\ pc = "extract_metadata"
  /\ videoUrls = <<1>>
  /\ i = 1
  /\ page = NoHandle
  /\ success = <<>>
  /\ failed = <<>>
  /\ openPages = <<>>
  /\ pending = ""
  /\ outcome = "running"
  /\ summary = NoSummary
  /\ attempts = [u \in Urls |-> 0]
  /\ opened = [u \in Urls |-> 0]
  /\ navs = [u \in Urls |-> 0]
  /\ delays = 0
  /\ cleanups = 0
  /\ quit = FALSE
  /\ ready = FALSE
  /\ got = NotCalled
  /\ cleanupResult = "none"
  /\ stages = <<>>
  /\ started = {}
  /\ tasks = {}
  /\ stepFailed = FALSE
  /\ files = NoFiles
  /\ discovery = "service"
  /\ anchors = <<>>
  /\ found = NotRun
  /\ writes = <<>>
  /\ helper = "none"
  /\ helperSource = "service"
  /\ hcall = 1
  /\ hstatus = "resolved"
  /\ hlog = <<>>
  /\ extractor \in Extractors
  /\ lookups \in Pages(extractor)
  /\ extracted = NotExtracted
  /\ description = <<>>
  /\ cleaned = NotCleaned
  /\ BackoffIdle
  /\ ConsentIdle

\* const metadata = await extractVideoMetadata(page, url)
ExtractVideoMetadata ==
  /\ pc = "extract_metadata"
  /\ extracted' = extractVideoMetadata(extractor, lookups)
  /\ pc' = "record"
  /\ UNCHANGED <<cfgVars, videoVars, svcVars, runVars, cleanups, clientVars,
                 discoveryVars, helperVars, extractor, lookups, description,
                 cleaned, backoffVars, consentVars>>

\* the rest of the video's pipeline: a resolved extraction is persisted by
\* saveVideoData and pushed to success, a rejected one reaches the catch of
\* the loop and is pushed to failed
RecordVideo ==
  /\ pc = "record"
  /\ IF extracted.status = "resolved"
     THEN LET hasImage == /\ "image" \in DOMAIN extracted.fields
                          /\ extracted.fields["image"] = "v"
              r == SaveVideoData(TRUE, hasImage, Artifacts)
          IN /\ files' = [tried |-> r.tried, saved |-> r.saved]
             /\ success' = Append(success, videoUrls[i])
             /\ UNCHANGED failed
     ELSE /\ failed' = Append(failed, FailedVideo(videoUrls[i],
                                                  extracted.error))
          /\ UNCHANGED <<files, success>>
  /\ pc' = "recorded"
  /\ UNCHANGED <<cfgVars, pureVars, svcVars, videoUrls, i, page, openPages,
                 pending, outcome, summary, attempts, opened, navs, delays,
                 quit, cleanups, clientVars, stages, started, tasks,
                 stepFailed>>

NextMetadata ==
  \/ ExtractVideoMetadata
  \/ RecordVideo

SpecMetadata == InitMetadata /\ [][NextMetadata]_vars

\* ------------------------------------------------- trimDescription
\* A description is a sequence of characters, put together from pieces: a
\* word, a line break, a blank line, a space and the marker the collapsed
\* description ends with.
\* "u2026" is the one character HORIZONTAL ELLIPSIS
MoreMarker == <<"u2026", ".", ".", ".", "m", "o", "r", "e", "\n">>
Pieces == {<<"a">>, <<"\n">>, <<"\n", "\n">>, <<" ">>, MoreMarker}

RECURSIVE Descriptions(_)
Descriptions(n) ==
  IF n = 0 THEN {<<>>}
  ELSE Descriptions(n - 1)
       \cup {d \o p : d \in Descriptions(n - 1), p \in Pieces}

StartsWith(s, pat) ==
  Len(s) >= Len(pat) /\ SubSeq(s, 1, Len(pat)) = pat

\* s.indexOf(pat): the 0-based index of the first occurrence, or -1
RECURSIVE IndexOf(_, _)
IndexOf(s, pat) ==
  IF StartsWith(s, pat) THEN 0
  ELSE IF s = <<>> THEN -1
  ELSE LET rest == IndexOf(Tail(s), pat)
       IN IF rest = -1 THEN -1 ELSE rest + 1

\* s.replace(/\n\n/g, "\n"): the matches are taken left to right and do not
\* overlap
RECURSIVE ReplaceDoubledNewlines(_)
ReplaceDoubledNewlines(s) ==
  IF s = <<>> THEN <<>>
  ELSE IF StartsWith(s, <<"\n", "\n">>)
  THEN <<"\n">> \o ReplaceDoubledNewlines(SubSeq(s, 3, Len(s)))
  ELSE <<Head(s)>> \o ReplaceDoubledNewlines(Tail(s))

\* s.trim(): white space removed at both ends
WhiteSpace == {" ", "\n"}
RECURSIVE TrimStart(_)
TrimStart(s) ==
  IF s # <<>> /\ Head(s) \in WhiteSpace THEN TrimStart(Tail(s)) ELSE s
RECURSIVE TrimEnd(_)
TrimEnd(s) ==
  IF s # <<>> /\ s[Len(s)] \in WhiteSpace
  THEN TrimEnd(SubSeq(s, 1, Len(s) - 1)) ELSE s
Trim(s) == TrimEnd(TrimStart(s))

trimDescription(d) ==
  IF d = <<>> THEN <<>>
  ELSE LET moreIndex == IndexOf(d, MoreMarker)
           trimmed == IF moreIndex # -1 THEN SubSeq(d, 1, moreIndex) ELSE d
       IN Trim(ReplaceDoubledNewlines(trimmed))

InitDescription ==
  /\ orchestrator = "output"
  /\ mode = "single"
  /\ config \in [interactive : {FALSE}, maxRetries : {3},
                  useDarkMode : {FALSE}, hideSuggestedVideos : {FALSE}]
  /\ state = [browser |-> NoHandle, context |-> NoHandle]
  /\ launched = 0
  /\ openBrowsers = {}
  /\ openContexts = {}
  /\ pages = <<>>
  /\ pc = "trim_description"
  /\ videoUrls = <<>>
  /\ i = 1
  /\ page = NoHandle
  /\ success = <<>>
  /\ failed = <<>>
  /\ openPages = <<>>
  /\ pending = ""
  /\ outcome = "running"
  /\ summary = NoSummary
  /\ attempts = [u \in Urls |-> 0]
  /\ opened = [u \in Urls |-> 0]
  /\ navs = [u \in Urls |-> 0]
  /\ delays = 0
  /\ cleanups = 0
  /\ quit = FALSE
  /\ ready = FALSE
  /\ got = NotCalled
  /\ cleanupResult = "none"
  /\ stages = <<>>
  /\ started = {}
  /\ tasks = {}
  /\ stepFailed = FALSE
  /\ files = NoFiles
  /\ discovery = "service"
  /\ anchors = <<>>
  /\ found = NotRun
  /\ writes = <<>>
  /\ helper = "none"
  /\ helperSource = "service"
  /\ hcall = 1
  /\ hstatus = "resolved"
  /\ hlog = <<>>
  /\ extractor = "selector"
  /\ lookups = <<>>
  /\ extracted = NotExtracted
  /\ description \in Descriptions(MaxPieces)
  /\ cleaned = NotCleaned
  /\ BackoffIdle
  /\ ConsentIdle

\* one call trimDescription(description)
TrimDescription ==
  /\ pc = "trim_description"
  /\ cleaned' = [ran |-> TRUE, text |-> trimDescription(description)]
  /\ pc' = "trimmed"
  /\ UNCHANGED <<cfgVars, videoVars, svcVars, runVars, cleanups, clientVars,
                 discoveryVars, helperVars, extractor, lookups, extracted,
                 description, backoffVars, consentVars>>

NextDescription == TrimDescription

SpecDescription == InitDescription /\ [][NextDescription]_vars

\* ------------------------------------ handleConsentDialog, call by call
\* findAndClickButton starts one async callback per selector
\* (selectors.map inside Promise.allSettled); the callbacks run interleaved
\* at their awaits. matching holds the selectors whose first element is
\* visible while the dialog is on the page.
consentSelectors == 1..5

InitConsent ==
  /\ orchestrator = "output"
  /\ mode = "single"
  /\ config \in [interactive : {FALSE}, maxRetries : {3},
                  useDarkMode : {FALSE}, hideSuggestedVideos : {FALSE}]
  /\ state = [browser |-> NoHandle, context |-> NoHandle]
  /\ launched = 0
  /\ openBrowsers = {}
  /\ openContexts = {}
  /\ pages = <<>>
  /\ pc = "consent_wait"
  /\ videoUrls = <<>>
  /\ i = 1
  /\ page = NoHandle
  /\ success = <<>>
  /\ failed = <<>>
  /\ openPages = <<>>
  /\ pending = ""
  /\ outcome = "running"
  /\ summary = NoSummary
  /\ attempts = [u \in Urls |-> 0]
  /\ opened = [u \in Urls |-> 0]
  /\ navs = [u \in Urls |-> 0]
  /\ delays = 0
  /\ cleanups = 0
  /\ quit = FALSE
  /\ ready = FALSE
  /\ got = NotCalled
  /\ cleanupResult = "none"
  /\ stages = <<>>
  /\ started = {}
  /\ tasks = {}
  /\ stepFailed = FALSE
  /\ files = NoFiles
  /\ discovery = "service"
  /\ anchors = <<>>
  /\ found = NotRun
  /\ writes = <<>>
  /\ helper = "handleConsentDialog"
  /\ helperSource = "service"
  /\ hcall = 1
  /\ hstatus = "running"
  /\ hlog = <<>>
  /\ MetadataIdle
  /\ BackoffIdle
  /\ matching \in {s \in SUBSET consentSelectors : Cardinality(s) <= MaxVisible}
  /\ dialogOpen = (matching # {})
  /\ selectorTask = <<>>
  /\ issued = <<>>

\* await page.waitForTimeout(500); then selectors.map(async ...) runs every
\* callback up to its first await, locator.isVisible. A throw of the wait is
\* caught by the outer try: the helper returns false
ConsentStart ==
  /\ pc = "consent_wait"
  /\ \E ok \in BOOLEAN :
       IF ok
       THEN /\ selectorTask' = [j \in consentSelectors |-> "isVisible"]
            /\ pc' = "consent_settle"
            /\ UNCHANGED hstatus
       ELSE /\ pc' = "consent_done"
            /\ hstatus' = "resolved"
            /\ UNCHANGED selectorTask
  /\ UNCHANGED <<cfgVars, videoVars, svcVars, runVars, cleanups, clientVars,
                 discoveryVars, helper, helperSource, hcall, hlog,
                 metadataVars, backoffVars, matching, dialogOpen, issued>>

\* the callback of selector j resumes after isVisible: visible (its element
\* is on the page now) -> enabled is true without checkEnabled -> it calls
\* locator.click(); not visible or a throw -> it returns false
SelectorIsVisible(j) ==
  /\ pc = "consent_settle"
  /\ selectorTask[j] = "isVisible"
  /\ \E threw \in BOOLEAN :
       IF ~threw /\ j \in matching /\ dialogOpen
       THEN /\ issued' = Append(issued, j)
            /\ selectorTask' = [selectorTask EXCEPT ![j] = "click"]
       ELSE /\ selectorTask' = [selectorTask EXCEPT ![j] = "false"]
            /\ UNCHANGED issued
  /\ UNCHANGED <<cfgVars, videoVars, svcVars, pc, runVars, cleanups,
                 clientVars, discoveryVars, helperVars, metadataVars,
                 backoffVars, matching, dialogOpen>>

\* the click of selector j settles: it lands when the dialog is still there
\* (the dialog then goes away or stays) and the callback returns true, or
\* it throws and the callback returns false
SelectorClick(j) ==
  /\ pc = "consent_settle"
  /\ selectorTask[j] = "click"
  /\ \/ /\ dialogOpen
        /\ selectorTask' = [selectorTask EXCEPT ![j] = "true"]
        /\ dialogOpen' \in BOOLEAN
     \/ /\ selectorTask' = [selectorTask EXCEPT ![j] = "false"]
        /\ UNCHANGED dialogOpen
  /\ UNCHANGED <<cfgVars, videoVars, svcVars, pc, runVars, cleanups,
                 clientVars, discoveryVars, helperVars, metadataVars,
                 backoffVars, matching, issued>>

\* Promise.allSettled resolves once every callback has returned;
\* clicked = results.some(value === true)
ConsentSettled ==
  /\ pc = "consent_settle"
  /\ \A j \in consentSelectors : selectorTask[j] \in {"true", "false"}
  /\ IF \E j \in consentSelectors : selectorTask[j] = "true"
     THEN pc' = "consent_final_wait" /\ UNCHANGED hstatus
     ELSE pc' = "consent_done" /\ hstatus' = "resolved"
  /\ UNCHANGED <<cfgVars, videoVars, svcVars, runVars, cleanups, clientVars,
                 discoveryVars, helper, helperSource, hcall, hlog, unitVars>>

\* if (clicked) await page.waitForTimeout(500); a throw is caught
ConsentFinalWait ==
  /\ pc = "consent_final_wait"
  /\ pc' = "consent_done"
  /\ hstatus' = "resolved"
  /\ UNCHANGED <<cfgVars, videoVars, svcVars, runVars, cleanups, clientVars,
                 discoveryVars, helper, helperSource, hcall, hlog, unitVars>>

NextConsent ==
  \/ ConsentStart
  \/ \E j \in consentSelectors : SelectorIsVisible(j)
  \/ \E j \in consentSelectors : SelectorClick(j)
  \/ ConsentSettled
  \/ ConsentFinalWait

SpecConsent == InitConsent /\ [][NextConsent]_vars

\* ------------------------------------------- ExponentialBackoff.execute
\* Delays are counted in units of 500 ms: baseDelay 500 or 1000 ms, maxDelay
\* 1500 or 30000 ms, and the jitter Math.random() * 1000 rounded down to a
\* unit. An invocation of operation resolves with a result or rejects with
\* an error.
BaseDelays == {1, 2}
MaxDelays == {3, 60}
Jitters == {0, 1}
Results == {"r1", "r2"}
Errors == {"e1", "e2"}

RECURSIVE Pow2(_)
Pow2(n) == IF n = 0 THEN 1 ELSE 2 * Pow2(n - 1)

\* BackoffDelay as it would be without Math.min(..., this.maxDelay)
BackoffDelayUncapped(b, n, jitter) == b.baseDelay * Pow2(n) + jitter

\* Math.min(this.baseDelay * Math.pow(2, attempt) + Math.random() * 1000,
\*          this.maxDelay)
BackoffDelay(b, n, jitter) ==
  LET grown == b.baseDelay * Pow2(n) + jitter
  IN IF grown <= b.maxDelay THEN grown ELSE b.maxDelay

InitBackoff ==
  /\ orchestrator = "output"
  /\ mode = "single"
  /\ config \in [interactive : {FALSE}, maxRetries : {3},
                  useDarkMode : {FALSE}, hideSuggestedVideos : {FALSE}]
  /\ state = [browser |-> NoHandle, context |-> NoHandle]
  /\ launched = 0
  /\ openBrowsers = {}
  /\ openContexts = {}
  /\ pages = <<>>
  /\ pc = "b_operation"
  /\ videoUrls = <<>>
  /\ i = 1
  /\ page = NoHandle
  /\ success = <<>>
  /\ failed = <<>>
  /\ openPages = <<>>
  /\ pending = ""
  /\ outcome = "running"
  /\ summary = NoSummary
  /\ attempts = [u \in Urls |-> 0]
  /\ opened = [u \in Urls |-> 0]
  /\ navs = [u \in Urls |-> 0]
  /\ delays = 0
  /\ cleanups = 0
  /\ quit = FALSE
  /\ ready = FALSE
  /\ got = NotCalled
  /\ cleanupResult = "none"
  /\ stages = <<>>
  /\ started = {}
  /\ tasks = {}
  /\ stepFailed = FALSE
  /\ files = NoFiles
  /\ discovery = "service"
  /\ anchors = <<>>
  /\ found = NotRun
  /\ writes = <<>>
  /\ helper = "none"
  /\ helperSource = "service"
  /\ hcall = 1
  /\ hstatus = "resolved"
  /\ hlog = <<>>
  /\ MetadataIdle
  /\ ConsentIdle
  /\ backoff \in [baseDelay : BaseDelays, maxRetries : 0..MaxRetries,
                   maxDelay : MaxDelays]
  /\ attempt = 0
  /\ calls = <<>>
  /\ waited = <<>>
  /\ bstatus = [status |-> "running", value |-> ""]

\* try { return await operation() } catch: the last attempt rethrows, an
\* earlier one goes on to the delay
InvokeOperation ==
  /\ pc = "b_operation"
  /\ attempt <= backoff.maxRetries
  /\ \E r \in Results \cup Errors :
       /\ calls' = Append(calls, r)
       /\ IF r \in Results
          THEN /\ bstatus' = [status |-> "returned", value |-> r]
               /\ pc' = "b_done"
          ELSE IF attempt = backoff.maxRetries
          THEN /\ bstatus' = [status |-> "threw", value |-> r]
               /\ pc' = "b_done"
          ELSE /\ pc' = "b_wait"
               /\ UNCHANGED bstatus
  /\ UNCHANGED <<cfgVars, videoVars, svcVars, runVars, cleanups, clientVars,
                 discoveryVars, helperVars, metadataVars, consentVars,
                 backoff, attempt, waited>>

\* await new Promise(resolve => setTimeout(resolve, delay)); attempt++
WaitBeforeRetry ==
  /\ pc = "b_wait"
  /\ \E jitter \in Jitters :
       waited' = Append(waited, BackoffDelay(backoff, attempt, jitter))
  /\ attempt' = attempt + 1
  /\ pc' = "b_operation"
  /\ UNCHANGED <<cfgVars, videoVars, svcVars, runVars, cleanups, clientVars,
                 discoveryVars, helperVars, metadataVars, consentVars,
                 backoff, calls, bstatus>>

NextBackoff ==
  \/ InvokeOperation
  \/ WaitBeforeRetry

SpecBackoff == InitBackoff /\ [][NextBackoff]_vars

\* ------------------------- the functional run, scrapeYouTubeChannel.ts
\* state holds the locals browser / context of scrapeYouTubeChannel, which
\* are assigned only once initializeScraping has returned. The run is
\* non-interactive; getVideoUrls and the scrape of one video are one step
\* each, with the outcomes of their awaits chosen together.
InitScraper ==
  /\ orchestrator = "screenshot"
  /\ mode = "channel"
  /\ config \in [interactive : {FALSE}, maxRetries : RetryChoices,
                  useDarkMode : {FALSE}, hideSuggestedVideos : {FALSE}]
  /\ state = [browser |-> NoHandle, context |-> NoHandle]
  /\ launched = 0
  /\ openBrowsers = {}
  /\ openContexts = {}
  /\ pages = <<>>
  /\ pc = "s_launch"
  /\ videoUrls = <<>>
  /\ i = 1
  /\ page = NoHandle
  /\ success = <<>>
  /\ failed = <<>>
  /\ openPages = <<>>
  /\ pending = ""
  /\ outcome = "running"
  /\ summary = NoSummary
  /\ attempts = [u \in Urls |-> 0]
  /\ opened = [u \in Urls |-> 0]
  /\ navs = [u \in Urls |-> 0]
  /\ delays = 0
  /\ cleanups = 0
  /\ quit = FALSE
  /\ ready = FALSE
  /\ got = NotCalled
  /\ cleanupResult = "none"
  /\ stages = <<>>
  /\ started = {}
  /\ tasks = {}
  /\ stepFailed = FALSE
  /\ files = NoFiles
  /\ discovery = "service"
  /\ anchors = <<>>
  /\ found = NotRun
  /\ writes = <<>>
  /\ helper = "none"
  /\ helperSource = "service"
  /\ hcall = 1
  /\ hstatus = "resolved"
  /\ hlog = <<>>
  /\ MetadataIdle
  /\ BackoffIdle
  /\ ConsentIdle

\* initializeScraping: const browser = await chromium.launch(...)
ScraperLaunch ==
  /\ pc = "s_launch"
  /\ \E ok \in BOOLEAN :
       IF ok
       THEN /\ launched' = launched + 1
            /\ openBrowsers' = openBrowsers \cup {launched + 1}
            /\ pc' = "s_context"
            /\ UNCHANGED pending
       ELSE /\ pending' = "launch"
            /\ pc' = "s_cleanup"
            /\ UNCHANGED <<launched, openBrowsers>>
  /\ UNCHANGED <<cfgVars, pureVars, videoVars, state, openContexts, pages,
                 ready, videoUrls, i, page, success, failed, openPages,
                 outcome, summary, attempts, opened, navs, delays, quit,
                 cleanups, clientVars>>

\* initializeScraping: const context = await browser.newContext(...); on
\* return scrapeYouTubeChannel assigns browser and context. When newContext
\* rejects, both locals of scrapeYouTubeChannel stay null
ScraperNewContext ==
  /\ pc = "s_context"
  /\ \E ok \in BOOLEAN :
       IF ok
       THEN /\ openContexts' = openContexts \cup {launched}
            /\ state' = [browser |-> launched, context |-> launched]
            /\ pc' = "s_urls"
            /\ UNCHANGED pending
       ELSE /\ pending' = "newContext"
            /\ pc' = "s_cleanup"
            /\ UNCHANGED <<openContexts, state>>
  /\ UNCHANGED <<cfgVars, pureVars, videoVars, launched, openBrowsers, pages,
                 ready, videoUrls, i, page, success, failed, openPages,
                 outcome, summary, attempts, opened, navs, delays, quit,
                 cleanups, clientVars>>

\* getVideoUrls: newPage, then try { goto ... evaluate } finally
\* { await page.close() }
ScraperGetVideoUrls ==
  /\ pc = "s_urls"
  /\ \E opens \in BOOLEAN, n \in -1..MaxVideos, o \in CloseOutcomes :
       IF ~opens
       THEN /\ pending' = "discover_newPage"
            /\ UNCHANGED <<pages, videoUrls>>
       ELSE /\ pages' = ClosePage(Append(pages, NewPageRec(0)),
                                  Len(pages) + 1, o)
            /\ videoUrls' = [k \in 1..n |-> k]
            /\ pending' = IF Throws(o) THEN "discover_close"
                          ELSE IF n = -1 THEN "discovery" ELSE ""
  /\ pc' = IF pending' = "" THEN "s_loop" ELSE "s_cleanup"
  /\ UNCHANGED <<cfgVars, pureVars, videoVars, state, launched, openBrowsers,
                 openContexts, ready, i, page, success, failed, openPages,
                 outcome, summary, attempts, opened, navs, delays, quit,
                 cleanups, clientVars>>

\* one iteration of scrapeVideos: scrapeVideoMetadata opens a page, scrapes
\* it and closes it in its finally; the metadata is pushed to success, an
\* error of any of the three to failed; backoff.delay() before the next URL
ScraperVideo ==
  /\ pc = "s_loop"
  /\ i <= N
  /\ attempts' = [attempts EXCEPT ![videoUrls[i]] = @ + 1]
  /\ \E opens, scraped \in BOOLEAN, o \in CloseOutcomes :
       IF ~opens
       THEN /\ failed' = Append(failed, FailedVideo(videoUrls[i], "newPage"))
            /\ UNCHANGED <<pages, opened, success>>
       ELSE /\ pages' = ClosePage(Append(pages, NewPageRec(videoUrls[i])),
                                  Len(pages) + 1, o)
            /\ opened' = [opened EXCEPT ![videoUrls[i]] = @ + 1]
            /\ IF scraped /\ ~Throws(o)
               THEN /\ success' = Append(success, videoUrls[i])
                    /\ UNCHANGED failed
               ELSE /\ failed' = Append(failed,
                                        FailedVideo(videoUrls[i],
                                                    IF Throws(o) THEN "close"
                                                    ELSE "goto"))
                    /\ UNCHANGED success
  /\ delays' = IF i < N THEN delays + 1 ELSE delays
  /\ i' = i + 1
  /\ UNCHANGED <<cfgVars, pureVars, videoVars, state, launched, openBrowsers,
                 openContexts, ready, pc, videoUrls, page, openPages,
                 pending, outcome, summary, navs, quit, cleanups,
                 clientVars>>

\* scrapeVideos returns; the ScrapingResult is assembled and saveResults
\* writes it
ScraperSaveResults ==
  /\ pc = "s_loop"
  /\ i > N
  /\ summary' = [total_attempted |-> N, successful |-> Len(success),
                 failed |-> Len(failed)]
  /\ \E ok \in BOOLEAN : pending' = IF ok THEN "" ELSE "saveResults"
  /\ pc' = "s_cleanup"
  /\ UNCHANGED <<cfgVars, pureVars, videoVars, svcVars, videoUrls, i, page,
                 success, failed, openPages, outcome, attempts, opened, navs,
                 delays, quit, cleanups, clientVars>>

\* finally { await cleanupScraping(browser, context, ...) }:
\* if (context) await context.close()
ScraperCleanupContext ==
  /\ pc = "s_cleanup"
  /\ cleanups' = cleanups + 1
  /\ IF state.context = NoHandle
     THEN /\ pc' = "s_cleanup_browser"
          /\ UNCHANGED <<openContexts, pages, outcome>>
     ELSE \E o \in CloseOutcomes :
            /\ openContexts' = IF Closes(o)
                               THEN openContexts \ {state.context}
                               ELSE openContexts
            /\ pages' = IF Closes(o) THEN CloseAllPages(pages) ELSE pages
            /\ outcome' = IF Throws(o) THEN "rejected" ELSE outcome
            /\ pc' = IF Throws(o) THEN "s_done" ELSE "s_cleanup_browser"
  /\ UNCHANGED <<cfgVars, pureVars, videoVars, state, launched, openBrowsers,
                 ready, videoUrls, i, page, success, failed, openPages,
                 pending, summary, attempts, opened, navs, delays, quit,
                 clientVars>>

\* if (browser) await browser.close(); then scrapeYouTubeChannel settles
ScraperCleanupBrowser ==
  /\ pc = "s_cleanup_browser"
  /\ IF state.browser = NoHandle
     THEN /\ outcome' = IF pending # "" THEN "rejected" ELSE "resolved"
          /\ UNCHANGED <<openBrowsers, openContexts, pages>>
     ELSE \E o \in CloseOutcomes :
            /\ openBrowsers' = IF Closes(o)
                               THEN openBrowsers \ {state.browser}
                               ELSE openBrowsers
            /\ openContexts' = IF Closes(o)
                               THEN openContexts \ {state.browser}
                               ELSE openContexts
            /\ pages' = IF Closes(o) THEN CloseAllPages(pages) ELSE pages
            /\ outcome' = IF Throws(o) \/ pending # "" THEN "rejected"
                          ELSE "resolved"
  /\ pc' = "s_done"
  /\ UNCHANGED <<cfgVars, pureVars, videoVars, state, launched, ready,
                 videoUrls, i, page, success, failed, openPages, pending,
                 summary, attempts, opened, navs, delays, quit, cleanups,
                 clientVars>>

NextScraper ==
  \/ ScraperLaunch
  \/ ScraperNewContext
  \/ ScraperGetVideoUrls
  \/ ScraperVideo
  \/ ScraperSaveResults
  \/ ScraperCleanupContext
  \/ ScraperCleanupBrowser

SpecScraper == InitScraper /\ [][NextScraper]_vars

TypeOK ==
  /\ pc \in {"initialize", "initialize_context", "discover", "discover_body",
             "discover_close", "loop", "v_goto", "v_setup", "v_setup_wait",
             "v_wait",
             "v_extract", "v_persist", "v_finally", "v_success", "v_close",
             "v_prompt", "v_close_prompt", "v_catch", "v_prompt_failed",
             "v_next", "after_loop", "summary", "cleanup", "cleanup_browser",
             "done", "idle", "svc_initialize_context",
             "svc_cleanup_browser", "extract_urls", "save_metadata",
             "helper", "extract_metadata", "record", "recorded",
             "trim_description", "trimmed", "exit_0", "exit_1",
             "consent_wait", "consent_settle", "consent_final_wait",
             "consent_done", "b_operation", "b_wait", "b_done",
             "s_launch", "s_context", "s_urls", "s_loop", "s_cleanup",
             "s_cleanup_browser", "s_done"}
  /\ outcome \in {"running", "resolved", "rejected"}
  /\ i \in 1..(MaxVideos + 1)

\* ------------------------------------------------------------ properties
InSuccess(u) == \E k \in DOMAIN success : success[k] = u
InFailed(u) == \E k \in DOMAIN failed : failed[k].url = u
Recorded(u) == InSuccess(u) \/ InFailed(u)
TimesRecorded(u) ==
  Cardinality({k \in DOMAIN success : success[k] = u})
  + Cardinality({k \in DOMAIN failed : failed[k].url = u})

Offered == {videoUrls[k] : k \in DOMAIN videoUrls}
LoopLeft == pc \in {"after_loop", "summary", "cleanup", "cleanup_browser",
                    "done"}

\* C1: in a run whose worker loop returns without the operator entering 'q',
\* every offered URL is in exactly one of success / failed, and
\* success.length + failed.length equals summary.total_attempted.
C1_PartitionComplete ==
  (summary # NoSummary /\ ~quit) =>
    /\ \A u \in Offered : TimesRecorded(u) = 1
    /\ Len(success) + Len(failed) = summary.total_attempted

\* C2: an error thrown while video i is handled is caught at the loop
\* boundary and recorded as one failed entry with retries_attempted =
\* maxRetries; it never leaves scrapeVideos, so the run does not reject
\* because of it.
VideoErrors == {"newPage", "goto", "title", "extract", "persist", "close",
                "prompt"}
C2_OneBadVideoNeverAborts ==
  /\ (LoopLeft => pending \notin VideoErrors)
  /\ \A u \in Offered :
       Cardinality({k \in DOMAIN failed : failed[k].url = u}) <= 1
  /\ \A k \in DOMAIN failed :
       failed[k].retries_attempted = config.maxRetries

C4_QuitStopsTheLoop ==
  quit =>
    /\ \A k \in DOMAIN videoUrls :
         k > i => (attempts[videoUrls[k]] = 0 /\ opened[videoUrls[k]] = 0
                   /\ ~Recorded(videoUrls[k]))
    /\ Len(success) + Len(failed) = i
    /\ (summary # NoSummary => summary.total_attempted = N)

\* C5: when the run function settles, cleanup() has been called and no
\* browser and no context of the session is still open.
C5_SessionTornDown ==
  pc = "done" =>
    /\ cleanups >= 1
    /\ openBrowsers = {}
    /\ openContexts = {}

\* C6: cleanup() never rejects, and once it has settled the session is
\* Closed: both handles are released and nothing is left open.
C6_CleanupNeverThrows ==
  cleanupResult \in {"resolved", "rejected"} =>
    /\ cleanupResult = "resolved"
    /\ state = [browser |-> NoHandle, context |-> NoHandle]

\* C7: at most one browser and one context are open, and every open browser
\* is the one the service references.
C7_OneSession ==
  /\ Cardinality(openBrowsers) <= 1
  /\ Cardinality(openContexts) <= 1
  /\ openBrowsers \subseteq {state.browser}

\* C8: getContext() called outside the Ready state (before an initialize has
\* completed, or after cleanup has run) throws instead of returning a context.
C8_GetContextOnlyWhenReady ==
  (got.called /\ ~got.ready) => got.threw

\* C9 (as stated): non-interactive mode, at most one video page is open at
\* any moment and none is open between two videos or when scrapeVideos
\* returns.
BetweenVideos == pc \in {"v_next", "loop", "after_loop", "summary"}
NotYetClosed == {k \in VideoPagesOpen : ~pages[k].closeCalled}
C10_InteractivePagesClosed ==
  (config.interactive /\ pc = "summary") => VideoPagesOpen = {}

\* C11: the backoff delay is applied exactly once between two consecutive
\* URLs in non-interactive mode, whether the earlier video succeeded or
\* failed: when video i is being handled i-1 delays have been made, N-1 when
\* the loop has handled all N offered URLs (none after the last URL), and no
\* delay is ever made in interactive mode.
Min(a, b) == IF a <= b THEN a ELSE b
Max(a, b) == IF a >= b THEN a ELSE b
C11_BackoffBetweenVideos ==
  /\ config.interactive => delays = 0
  /\ ~config.interactive => delays = Min(i - 1, Max(N - 1, 0))
  /\ (~config.interactive /\ pc = "summary") => delays = Max(N - 1, 0)

\* a non-interactive run over two URLs, the first of which failed, has
\* returned from the loop after one delay
C11_Witness ==
  /\ ~config.interactive
  /\ pc = "summary"
  /\ N = 2
  /\ InFailed(videoUrls[1])
  /\ delays = 1

\* C12: within one video the stages run in the order navigation, interaction,
\* extraction, persistence: setupVideoPage starts only after page.goto has
\* completed, every started interaction step has settled before
\* extractVideoMetadata reads the page (and before anything later), nothing
\* is persisted before the extraction has completed, and once a stage has
\* thrown no later stage runs for that video.
StageOrder == <<"navigation", "interaction", "extraction", "persistence">>
C12_StagesInOrder ==
  /\ Len(stages) <= Len(StageOrder)
  /\ \A k \in DOMAIN stages :
       /\ stages[k].stage = StageOrder[k]
       /\ stages[k].unsettled = {}
       /\ k < Len(stages) => stages[k].ok
  /\ started # {} => (Len(stages) >= 1 /\ stages[1].ok)
  /\ tasks # {} => Len(stages) = 1
  /\ files.tried # {} => (Len(stages) = 4 /\ stages[3].ok)

\* the second video went through all four stages, with both optional setup
\* steps started, after the first video had failed
C12_Witness ==
  /\ i = 2
  /\ InFailed(videoUrls[1])
  /\ Len(stages) = 4
  /\ stages[4].ok
  /\ started = SetupSteps(config)
  /\ "enableDarkMode" \in started
  /\ stepFailed

\* C13: videos are processed in the order of the offered list: video k+1 is
\* not started before video k is recorded in success or failed, and the
\* entries of success and of failed each follow the order of their URLs in
\* the offered list.
Position(u) == CHOOSE k \in DOMAIN videoUrls : videoUrls[k] = u
C13_DiscoveryOrder ==
  /\ \A k \in DOMAIN videoUrls :
       (k > 1 /\ attempts[videoUrls[k]] > 0) => Recorded(videoUrls[k - 1])
  /\ \A a, b \in DOMAIN success :
       a < b => Position(success[a]) < Position(success[b])
  /\ \A a, b \in DOMAIN failed :
       a < b => Position(failed[a].url) < Position(failed[b].url)

\* both offered videos were scraped and a later one is in success after an
\* earlier one
C13_Witness ==
  /\ N >= 2
  /\ Len(success) >= 2
  /\ success[1] = videoUrls[1]
  /\ success[2] = videoUrls[2]

\* C18: setupVideoPage starts all the steps its configuration selects and
\* returns only after every started step has settled; it never rejects, and
\* a step whose page call failed neither cancels the other steps nor keeps
\* them from completing.
C18_SetupSettlesAll ==
  /\ pc = "v_setup_wait" => started = SetupSteps(config)
  /\ tasks \subseteq started
  /\ pc # "v_setup_wait" => tasks = {}
  /\ Len(stages) >= 2 =>
       /\ stages[2].stage = "interaction"
       /\ stages[2].ok
       /\ stages[2].unsettled = {}
  /\ pending # "setup"

\* setupVideoPage has returned with all six steps settled although a step
\* failed
C18_Witness ==
  /\ pc = "v_wait"
  /\ stepFailed
  /\ started = {"handleConsentDialog", "dismissPopups", "pauseVideo",
                "expandDescription", "enableDarkMode",
                "hideSuggestedContent"}
  /\ tasks = {}
  /\ stages[2].ok

\* C19: when the image download or the HTML snapshot of a video fails,
\* saveVideoData has still written the metadata JSON and still goes on to
\* the HTML snapshot and the screenshot; it does not reject, and the video
\* is recorded in success.
Lost(a) == a \in files.tried \ files.saved
C19_PersistenceIsolated ==
  (Lost("image") \/ Lost("html")) =>
    /\ "metadata" \in files.saved
    /\ {"html", "screenshot"} \subseteq files.tried
    /\ Len(stages) = 4
    /\ stages[4].ok
    /\ pending # "persist"
    /\ pc # "v_success" => InSuccess(videoUrls[i])

\* the image of the current video could not be fetched; its metadata, HTML
\* snapshot and screenshot are written and the video is in success
C19_Witness ==
  /\ pc = "v_next"
  /\ Lost("image")
  /\ files.saved = {"metadata", "html", "screenshot"}
  /\ InSuccess(videoUrls[i])
  /\ ~InFailed(videoUrls[i])

\* C16 (as stated): once discoverVideoUrls has settled, on any outcome, the
\* page it opened is closed, and it is closed before any video page is
\* opened.
DiscoveryPages == {k \in DOMAIN pages : pages[k].url = 0}
VideoPages == {k \in DOMAIN pages : pages[k].url # 0}
DiscoverySettled == pc \notin {"initialize", "initialize_context", "discover",
                               "discover_body", "discover_close"}
IdsOf(urls) == [k \in DOMAIN urls |-> extractVideoId(urls[k])]
C14_DistinctIdsFirstSeen ==
  found.ran =>
    /\ \A a, b \in DOMAIN found.urls :
         a # b => extractVideoId(found.urls[a]) # extractVideoId(found.urls[b])
    /\ IdsOf(found.urls) =
         JsSlice(Unique(IdsOf(anchors)), found.offset,
                 found.offset + found.maxVideos)

\* C15: with offset k and maxVideos n the result has exactly
\* min(n, max(0, total - k)) URLs and is the sub-slice [k, k + n) of the
\* full de-duplicated first-seen list; when fewer than k + n exist it holds
\* what exists, possibly nothing.
Total == Len(uniqueUrls(discovery, anchors))
C15_OffsetLimitSlice ==
  found.ran =>
    /\ Len(found.urls) = Min(found.maxVideos, Max(0, Total - found.offset))
    /\ \A j \in DOMAIN found.urls :
         found.urls[j] = uniqueUrls(discovery, anchors)[found.offset + j]

\* an offset inside the list with fewer than offset + maxVideos URLs left
C15_Witness ==
  /\ found.ran
  /\ found.offset = 1
  /\ found.maxVideos = 3
  /\ Total = 2
  /\ Len(found.urls) = 1
  /\ Len(anchors) > Total

\* C20: no two URLs processed in one run are written to the same
\* metadata/<filename>.json path, the file name being derived from
\* (uploadDate or datePublished, video id of the scraped URL).
C20_NoMetadataOverwrite ==
  \A a, b \in DOMAIN writes : a # b => writes[a] # writes[b]

\* C17: whichever page call of a page-interaction helper is made to throw
\* (DOM query, evaluate, click, timeout wait), the promise of the helper
\* does not reject.
C17_HelpersNeverReject ==
  hstatus # "rejected"

\* C21: when the lookup of a single field finds nothing or fails while every
\* other lookup delivers, extractVideoMetadata resolves, the field of that
\* lookup is the empty string and every other field has its value.
Deviating == {l \in DOMAIN lookups : lookups[l] # "value"}
C21_FieldAbsenceTolerated ==
  (extracted.status # "none" /\ Cardinality(Deviating) = 1
     /\ "meta" \notin Deviating) =>
    /\ extracted.status = "resolved"
    /\ \A f \in DOMAIN extracted.fields :
         extracted.fields[f] =
           (IF LookupOf(extractor, f) \in Deviating THEN "" ELSE "v")

\* C22: when no field lookup of the page delivers a value,
\* extractVideoMetadata rejects, the video is recorded in failed, and nothing
\* is appended to success or persisted for it.
Unrecognizable == \A l \in DOMAIN lookups : l # "meta" => lookups[l] # "value"
C22_EmptyPageFails ==
  (extracted.status # "none" /\ Unrecognizable) =>
    /\ extracted.status = "rejected"
    /\ success = <<>>
    /\ files = NoFiles
    /\ pc = "recorded" => InFailed(videoUrls[1])

\* C23: when the description contains the show-more marker, the cleaned text
\* is what the part before the first marker alone cleans to (nothing that
\* followed the marker is in it), and for every description the cleaned text
\* has no two consecutive newlines.
HasDoubledNewline(s) ==
  \E k \in 1..(Len(s) - 1) : s[k] = "\n" /\ s[k + 1] = "\n"
BeforeMarker(d) == SubSeq(d, 1, IndexOf(d, MoreMarker))
C23_MarkerCut ==
  (cleaned.ran /\ IndexOf(description, MoreMarker) # -1) =>
    /\ cleaned.text = trimDescription(BeforeMarker(description))
    /\ IndexOf(cleaned.text, MoreMarker) = -1
C23_DescriptionTrimmed ==
  /\ C23_MarkerCut
  /\ cleaned.ran => ~HasDoubledNewline(cleaned.text)

\* C24: the process exits 0 whenever the worker loop of the session ran to
\* its end, whatever became of the individual videos, and it exits non-zero
\* only after a failure of the browser session itself (the browser could not
\* be launched, the context or a page of it could not be opened).
SessionFailures == {"launch", "newContext", "discover_newPage"}
Exited == pc \in {"exit_0", "exit_1"}
C24_ExitCode ==
  /\ (Exited /\ summary # NoSummary) => pc = "exit_0"
  /\ pc = "exit_1" => pending \in SessionFailures

\* C25: a video is reported as failed only after its scrape has been
\* re-attempted the configured number of times: every entry of failed
\* belongs to a URL whose pipeline was entered maxRetries + 1 times.
C25_RetriedBeforeFailed ==
  \A k \in DOMAIN failed :
    attempts[failed[k].url] = config.maxRetries + 1

\* C26: interactive mode, the page of the video under inspection is open
\* while the operator is prompted after a successful scrape, at most one
\* video page is open at any moment, and once the operator has advanced with
\* 'n' (before the next page is opened) no video page is open.
C26_InteractiveOnePage ==
  config.interactive =>
    /\ Cardinality(VideoPagesOpen) <= 1
    /\ pc = "v_prompt" => (page # NoHandle /\ pages[page].open)
    /\ pc \in {"v_next", "loop"} => VideoPagesOpen = {}

\* C27: in one call of handleConsentDialog at most one click is issued, and
\* it is issued on the first selector, in list order, whose element is
\* visible.
FirstMatching == CHOOSE j \in matching : \A k \in matching : j <= k
C27_ClicksFirstVisibleOnly ==
  /\ Len(issued) <= 1
  /\ issued # <<>> => issued[1] = FirstMatching

\* C28: execute invokes operation at most maxRetries + 1 times and never
\* again after an invocation that succeeded; it returns the result of that
\* invocation, or rethrows the error of the last invocation once
\* maxRetries + 1 invocations have failed; the wait before retry number k + 1
\* is base * 2^k plus jitter, and never exceeds maxDelay.
C28_BoundedRetries ==
  /\ Len(calls) <= backoff.maxRetries + 1
  /\ \A k \in DOMAIN calls : k < Len(calls) => calls[k] \in Errors
  /\ bstatus.status = "returned" =>
       (calls[Len(calls)] \in Results /\ bstatus.value = calls[Len(calls)])
  /\ bstatus.status = "threw" =>
       /\ Len(calls) = backoff.maxRetries + 1
       /\ \A k \in DOMAIN calls : calls[k] \in Errors
       /\ bstatus.value = calls[Len(calls)]
  /\ pc = "b_operation" => Len(waited) = Len(calls)
  /\ pc \in {"b_wait", "b_done"} => Len(waited) = Len(calls) - 1
  /\ \A k \in DOMAIN waited :
       /\ waited[k] <= backoff.maxDelay
       /\ \/ waited[k] = backoff.maxDelay
          \/ waited[k] - backoff.baseDelay * Pow2(k - 1) \in Jitters

\* four invocations failed with maxRetries = 3: the first wait was the
\* uncapped base + jitter, the third was cut to maxDelay, and the error of
\* the fourth invocation was rethrown
C28_Witness ==
  /\ backoff = [baseDelay |-> 1, maxRetries |-> 3, maxDelay |-> 3]
  /\ bstatus = [status |-> "threw", value |-> "e2"]
  /\ Len(calls) = 4
  /\ calls[1] = "e1"
  /\ waited = <<2, 3, 3>>

\* C29: when the browser was launched and opening the context then failed,
\* no browser process is running once the run function has settled.
C29_NoBrowserOutlivesFailedInit ==
  (outcome # "running" /\ pending = "newContext") => openBrowsers = {}

\* C30: a non-interactive run in which every awaited operation settles
\* terminates: every URL handed to the worker loop is eventually in success
\* or failed, no more than N + 1 pages are ever opened (one for discovery,
\* one per URL), and the run function eventually settles after cleanup()
\* was called.
C30_BatchTerminates ==
  /\ [](Len(pages) <= N + 1)
  /\ \A u \in Urls : (pc = "loop" /\ u \in Offered) ~> Recorded(u)
  /\ <>(pc = "done" /\ outcome # "running" /\ cleanups >= 1)

C30_Witness ==
  /\ ~config.interactive
  /\ pc = "done"
  /\ N = MaxVideos
  /\ Len(pages) = N + 1
  /\ \A u \in Offered : Recorded(u)
  /\ success # <<>>
  /\ failed # <<>>
  /\ cleanups = 1

====
